---------------------------- MODULE Spec2Model ----------------------------
(***************************************************************************)
(* Model of the multi-tool gateway of src/index.js: ten POST endpoints     *)
(* that validate a request, build a prompt, call the inference backend     *)
(* through callHuggingFaceAPI, extract and clean the generated text and    *)
(* answer with a JSON envelope.                                            *)
(*                                                                         *)
(* JavaScript strings are TLA+ strings (Len, SubSeq and \o work on them    *)
(* character by character).  Every other JavaScript value is a tagged      *)
(* record, so that typeof, truthiness, property access on null, String()   *)
(* and JSON.stringify can be computed the way the runtime computes them.   *)
(* Numbers are kept in tenths (7 is 0.7, 2000 is 200) because temperatures *)
(* are decimal fractions.                                                  *)
(***************************************************************************)
EXTENDS Integers, Sequences, FiniteSets, TLC

VARIABLES
    apiKey,       \* process.env.HUGGINGFACE_API_KEY || ''
    pc,           \* where the handler of the current request stands
    endpoint,     \* the route of the current request
    body,         \* req.body
    trendsData,   \* the handler's trendsData
    prompt,       \* the handler's prompt, "" until it is built
    net,          \* the outbound calls issued for the current request, in order
    trendsReply,  \* what the feed answered to this request's fetch
    genReply,     \* what the inference backend answered to this request's POST
    res           \* the response sent, NoResponse until then

vars == <<apiKey, pc, endpoint, body, trendsData, prompt, net, trendsReply, genReply, res>>

----------------------------------------------------------------------------
(* Strings *)

IsWS(c) == c \in {" ", "\n", "\t", "\r"}

CharAt(s, i) == SubSeq(s, i, i)

RECURSIVE TrimStart(_)
TrimStart(s) ==
    IF Len(s) > 0 /\ IsWS(CharAt(s, 1)) THEN TrimStart(SubSeq(s, 2, Len(s))) ELSE s

RECURSIVE TrimEnd(_)
TrimEnd(s) ==
    IF Len(s) > 0 /\ IsWS(CharAt(s, Len(s))) THEN TrimEnd(SubSeq(s, 1, Len(s) - 1)) ELSE s

\* String.prototype.trim
Trim(s) == TrimEnd(TrimStart(s))

SetMin(S) == CHOOSE m \in S : \A o \in S : m <= o

SetMax(S) == CHOOSE m \in S : \A o \in S : m >= o

\* String.prototype.indexOf, 1-based; 0 when pat does not occur
IndexOf(s, pat) ==
    LET hits == {i \in 1..(Len(s) - Len(pat) + 1) : SubSeq(s, i, i + Len(pat) - 1) = pat}
    IN  IF hits = {} THEN 0 ELSE SetMin(hits)

Contains(s, pat) == IndexOf(s, pat) > 0

StartsWith(s, pat) == Len(pat) <= Len(s) /\ SubSeq(s, 1, Len(pat)) = pat

\* s.replace(pat, '') with a string pattern: the first occurrence only
RemoveFirst(s, pat) ==
    LET i == IndexOf(s, pat)
    IN  IF i = 0 THEN s
        ELSE SubSeq(s, 1, i - 1) \o SubSeq(s, i + Len(pat), Len(s))

\* no cut at all
Substring0Whole(s, n) == s

\* s.substring(0, n)
Substring0(s, n) == IF Len(s) <= n THEN s ELSE SubSeq(s, 1, n)

\* s.replace(/\s+/g, '')
RECURSIVE RemoveWS(_)
RemoveWS(s) ==
    IF Len(s) = 0 THEN ""
    ELSE IF Len(s) = 1 THEN (IF IsWS(s) THEN "" ELSE s)
    ELSE RemoveWS(SubSeq(s, 1, Len(s) \div 2)) \o RemoveWS(SubSeq(s, Len(s) \div 2 + 1, Len(s)))

LowerChar(c) ==
    LET i == IndexOf("ABCDEFGHIJKLMNOPQRSTUVWXYZ", c)
    IN  IF i = 0 THEN c ELSE CharAt("abcdefghijklmnopqrstuvwxyz", i)

\* String.prototype.toLowerCase, on ASCII letters
RECURSIVE ToLowerCase(_)
ToLowerCase(s) ==
    IF Len(s) = 0 THEN ""
    ELSE IF Len(s) = 1 THEN LowerChar(s)
    ELSE ToLowerCase(SubSeq(s, 1, Len(s) \div 2))
            \o ToLowerCase(SubSeq(s, Len(s) \div 2 + 1, Len(s)))

\* s.split('\n')
RECURSIVE SplitLines(_)
SplitLines(s) ==
    LET i == IndexOf(s, "\n")
    IN  IF i = 0 THEN <<s>>
        ELSE <<SubSeq(s, 1, i - 1)>> \o SplitLines(SubSeq(s, i + 1, Len(s)))

\* s.split(/\s+/).length: one more than the number of whitespace runs
SplitWSLength(s) ==
    1 + Cardinality({i \in 1..Len(s) :
            IsWS(CharAt(s, i)) /\ (i = 1 \/ ~IsWS(CharAt(s, i - 1)))})

RECURSIVE Repeat(_, _)
\* c taken n times
Repeat(c, n) ==
    IF n <= 0 THEN ""
    ELSE IF n = 1 THEN c
    ELSE Repeat(c, n \div 2) \o Repeat(c, n - n \div 2)

RECURSIVE JoinStr(_, _)
\* Array.prototype.join on a sequence of strings
JoinStr(seq, sep) ==
    IF Len(seq) = 0 THEN ""
    ELSE IF Len(seq) = 1 THEN seq[1]
    ELSE seq[1] \o sep \o JoinStr(Tail(seq), sep)

Digit(d) == CharAt("0123456789", d + 1)

RECURSIVE NatToStr(_)
NatToStr(n) == IF n < 10 THEN Digit(n) ELSE NatToStr(n \div 10) \o Digit(n % 10)


\* Number.prototype.toString for a number kept in tenths
NumToStr(n) ==
    LET a == IF n < 0 THEN 0 - n ELSE n
        whole == NatToStr(a \div 10)
        digits == IF a % 10 = 0 THEN whole ELSE whole \o "." \o Digit(a % 10)
    IN  IF n < 0 THEN "-" \o digits ELSE digits

----------------------------------------------------------------------------
(* JavaScript values *)

Undef == [t |-> "undefined"]

Null == [t |-> "null"]

Str(s) == [t |-> "string", s |-> s]

\* n is the number in tenths
Num(n) == [t |-> "number", n |-> n]

Bool(b) == [t |-> "boolean", b |-> b]

\* f is a record: the object's own properties
Obj(f) == [t |-> "object", f |-> f]

\* a is a sequence of values
Arr(a) == [t |-> "array", a |-> a]

IsString(v) == v.t = "string"

IsArray(v) == v.t = "array"

\* typeof v
TypeOf(v) ==
    CASE v.t \in {"object", "array", "null"} -> "object"
      [] OTHER -> v.t

\* ToBoolean
Truthy(v) ==
    CASE v.t = "undefined" -> FALSE
      [] v.t = "null" -> FALSE
      [] v.t = "string" -> v.s # ""
      [] v.t = "number" -> v.n # 0
      [] v.t = "boolean" -> v.b
      [] OTHER -> TRUE

\* a || b
Or(a, b) == IF Truthy(a) THEN a ELSE b

\* v.k where v is neither null nor undefined
Get(v, k) ==
    IF v.t = "object" /\ k \in DOMAIN v.f THEN v.f[k] ELSE Undef

\* v[0] where v is neither null nor undefined
Get0(v) ==
    CASE v.t = "array" -> IF Len(v.a) > 0 THEN v.a[1] ELSE Undef
      [] v.t = "string" -> IF Len(v.s) > 0 THEN Str(CharAt(v.s, 1)) ELSE Undef
      [] OTHER -> Get(v, "0")

Nullish(v) == v.t \in {"undefined", "null"}

\* v?.k
OptGet(v, k) == IF Nullish(v) THEN Undef ELSE Get(v, k)

\* the order in which the properties of a parsed body are enumerated
KeyOrder == <<"generated_text", "text", "summary", "error", "companyName", "title">>

KeysOf(f) == SelectSeq(KeyOrder, LAMBDA k : k \in DOMAIN f)

\* the escapes JSON.stringify applies inside a string literal
EscapeChar(c) ==
    CASE c = "\"" -> "\\\"" [] c = "\\" -> "\\\\" [] c = "\n" -> "\\n"
      [] c = "\t" -> "\\t" [] c = "\r" -> "\\r" [] OTHER -> c

RECURSIVE Escape(_)
Escape(s) ==
    IF Len(s) = 0 THEN ""
    ELSE IF Len(s) = 1 THEN EscapeChar(s)
    ELSE Escape(SubSeq(s, 1, Len(s) \div 2)) \o Escape(SubSeq(s, Len(s) \div 2 + 1, Len(s)))

Quote(s) == "\"" \o Escape(s) \o "\""

RECURSIVE StringifyText(_)
\* the text JSON.stringify produces for a value that is not undefined
StringifyText(v) ==
    CASE v.t = "string" -> Quote(v.s)
      [] v.t = "number" -> NumToStr(v.n)
      [] v.t = "boolean" -> IF v.b THEN "true" ELSE "false"
      [] v.t = "null" -> "null"
      [] v.t = "undefined" -> "null"
      [] v.t = "array" ->
            "[" \o JoinStr([i \in 1..Len(v.a) |-> StringifyText(v.a[i])], ",") \o "]"
      [] v.t = "object" ->
            LET ks == KeysOf(v.f)
            IN  "{" \o JoinStr([i \in 1..Len(ks) |->
                        Quote(ks[i]) \o ":" \o StringifyText(v.f[ks[i]])], ",") \o "}"

\* JSON.stringify(v): undefined stays undefined, everything else is a string
JsonStringify(v) == IF v.t = "undefined" THEN Undef ELSE Str(StringifyText(v))

RECURSIVE ToStr(_)
\* String(v), and a value interpolated into a template literal
ToStr(v) ==
    CASE v.t = "string" -> v.s
      [] v.t = "number" -> NumToStr(v.n)
      [] v.t = "boolean" -> IF v.b THEN "true" ELSE "false"
      [] v.t = "null" -> "null"
      [] v.t = "undefined" -> "undefined"
      [] v.t = "array" -> JoinStr([i \in 1..Len(v.a) |->
                              IF Nullish(v.a[i]) THEN "" ELSE ToStr(v.a[i])], ",")
      [] v.t = "object" -> "[object Object]"

----------------------------------------------------------------------------
(* What the network hands back to one fetch.                               *)
(*   [kind |-> "reject", message]            fetch() rejects                *)
(*   [kind |-> "response", status, statusText, text, json]                 *)
(* where text is what response.text() gives and json what response.json()  *)
(* gives; each is [ok |-> TRUE, v |-> ...] or [ok |-> FALSE, message] when *)
(* reading or parsing throws.                                              *)

Reject(m) == [kind |-> "reject", message |-> m]

Response(st, stText, txt, js) ==
    [kind |-> "response", status |-> st, statusText |-> stText, text |-> txt, json |-> js]

Gives(v) == [ok |-> TRUE, v |-> v]

Throws(m) == [ok |-> FALSE, message |-> m]

\* response.ok
ResponseOk(reply) == reply.status >= 200 /\ reply.status <= 299

----------------------------------------------------------------------------
(* callHuggingFaceAPI *)

ExcerptLen == 200

ModelLoadingStatus == 503

NotConfiguredResult ==
    Obj([error |-> Str("API key not configured. Please set HUGGINGFACE_API_KEY in your environment variables."),
         suggestion |-> Str("Get a free API key from https://huggingface.co/settings/tokens")])

ModelLoadingDetails == "Model is currently loading. Please try again in a few moments."

\* the catch block reading a property the exception does not have
ConnectFailureNoDetails(message) ==
    Obj([error |-> Str("Failed to connect to AI service"), details |-> Undef])

\* the catch block
ConnectFailure(message) ==
    Obj([error |-> Str("Failed to connect to AI service"), details |-> Str(message)])

\* the branch without its special case for the loading status
RequestFailedNoLoadingCase(reply) ==
    IF ~reply.text.ok THEN ConnectFailure(reply.text.message)
    ELSE Obj([error |-> Str("API request failed: " \o NatToStr(reply.status) \o " " \o reply.statusText),
              details |-> Str(Substring0(reply.text.v, ExcerptLen))])

\* the !response.ok branch
RequestFailed(reply) ==
    IF ~reply.text.ok THEN ConnectFailure(reply.text.message)
    ELSE Obj([error |-> Str("API request failed: " \o NatToStr(reply.status) \o " " \o reply.statusText),
              details |-> Str(IF reply.status = ModelLoadingStatus
                              THEN ModelLoadingDetails
                              ELSE Substring0(reply.text.v, ExcerptLen))])

\* what follows const data = await response.json()
Unwrap(data) ==
    IF IsArray(data) /\ Len(data.a) > 0
    THEN Obj([success |-> Bool(TRUE), data |-> data.a[1]])
    ELSE IF Nullish(data)
    THEN ConnectFailure("Cannot read properties of null (reading 'error')")
    ELSE IF Truthy(Get(data, "error"))
    THEN Obj([error |-> Get(data, "error"),
              details |-> Or(Get(data, "error"), Str("Unknown API error"))])
    ELSE Obj([success |-> Bool(TRUE), data |-> data])

\* callHuggingFaceAPI once fetch has settled with reply
HFResult(reply) ==
    IF reply.kind = "reject" THEN ConnectFailure(reply.message)
    ELSE IF ~ResponseOk(reply) THEN RequestFailed(reply)
    ELSE IF ~reply.json.ok THEN ConnectFailure(reply.json.message)
    ELSE Unwrap(reply.json.v)

\* the guard dropped: the request goes out with an empty bearer token
KeyMissingNever(key) == FALSE

\* if (!apiKey)
KeyMissing(key) == key = ""

----------------------------------------------------------------------------
(* fetchRedditTrends *)

\* new Date(seconds * 1000).toISOString(), abbreviated to the epoch seconds
IsoOfSeconds(n) == "epoch+" \o NatToStr(n) \o "s"

\* whether the map callback throws on this child
ChildThrows(child) ==
    \/ Nullish(child)
    \/ Nullish(Get(child, "data"))
    \/ Get(Get(child, "data"), "created_utc").t # "number"

PostOf(child) ==
    LET d == Get(child, "data")
    IN  Obj([title |-> Get(d, "title"),
             score |-> Get(d, "score"),
             subreddit |-> Get(d, "subreddit"),
             url |-> Str("https://reddit.com" \o ToStr(Get(d, "permalink"))),
             created |-> Str(IsoOfSeconds(Get(d, "created_utc").n \div 10))])

RedditFailure(message) ==
    Obj([error |-> Str("Failed to fetch Reddit trends"), details |-> Str(message)])

\* data.data?.children?.map(...) || []
PostsOf(data) ==
    LET children == OptGet(OptGet(data, "data"), "children")
    IN  IF Nullish(children) THEN Gives(Arr(<<>>))
        ELSE IF ~IsArray(children) THEN Throws("data.data?.children?.map is not a function")
        ELSE IF \E i \in 1..Len(children.a) : ChildThrows(children.a[i])
        THEN Throws("Cannot read properties of undefined")
        ELSE Gives(Arr([i \in 1..Len(children.a) |-> PostOf(children.a[i])]))

\* fetchRedditTrends once fetch has settled with reply
RedditResult(reply) ==
    IF reply.kind = "reject" THEN RedditFailure(reply.message)
    ELSE IF ~ResponseOk(reply)
    THEN Obj([error |-> Str("Reddit API request failed: " \o NatToStr(reply.status)),
              details |-> Str("Unable to fetch Reddit trends")])
    ELSE IF ~reply.json.ok THEN RedditFailure(reply.json.message)
    ELSE IF Nullish(reply.json.v) THEN RedditFailure("Cannot read properties of null (reading 'data')")
    ELSE LET posts == PostsOf(reply.json.v)
         IN  IF posts.ok THEN Obj([success |-> Bool(TRUE), data |-> Obj([posts |-> posts.v])])
             ELSE RedditFailure(posts.message)

----------------------------------------------------------------------------
(* The ten POST routes *)

Endpoints ==
    {"content", "leads", "products", "prompts", "trends",
     "resume", "email", "newsletter", "seo", "v1"}

\* the routes that may fetch trends before generating
TrendEndpoints == {"newsletter", "seo"}

\* the fields each handler checks, in the order it checks them, with its message
Required(ep) ==
    CASE ep = "content"    -> <<<<"topic", "Topic is required">>>>
      [] ep = "leads"      -> <<<<"industry", "Industry is required">>>>
      [] ep = "products"   -> <<<<"productType", "Product type is required">>,
                                <<"topic", "Topic is required">>>>
      [] ep = "prompts"    -> <<<<"category", "Category is required">>>>
      [] ep = "trends"     -> <<<<"industry", "Industry is required">>>>
      [] ep = "resume"     -> <<<<"name", "Name is required">>,
                                <<"jobTitle", "Job title is required">>>>
      [] ep = "email"      -> <<<<"recipientName", "Recipient name is required">>,
                                <<"purpose", "Email purpose is required">>>>
      [] ep = "newsletter" -> <<<<"topic", "Topic is required">>>>
      [] ep = "seo"        -> <<<<"keyword", "Keyword is required">>>>
      [] ep = "v1"         -> <<<<"prompt", "Prompt is required">>>>

\* the check without its trim: a blank string passes
FieldMissingNoTrim(v) == ~Truthy(v) \/ TypeOf(v) # "string"

\* !x || typeof x !== 'string' || x.trim().length === 0
FieldMissing(v) ==
    \/ ~Truthy(v)
    \/ TypeOf(v) # "string"
    \/ Len(Trim(v.s)) = 0

\* the indexes of the required fields whose check fails
FailedChecks(ep, b) ==
    {i \in 1..Len(Required(ep)) : FieldMissing(Get(b, Required(ep)[i][1]))}

Valid(ep, b) == FailedChecks(ep, b) = {}

\* res.status(400).json({ error: '<field> is required' }) for the first failed check
Rejection(ep, b) ==
    [status |-> 400,
     body |-> Obj([error |-> Str(Required(ep)[SetMin(FailedChecks(ep, b))][2])])]

----------------------------------------------------------------------------
(* Prompt builders: the template literal of each handler *)

\* ${x ? `<before>${x}<after>` : ''}
Clause(x, before, after) ==
    IF Truthy(x) THEN before \o ToStr(x) \o after ELSE ""

\* trendsData.map(p => p.title).join(', ')
Titles(td) ==
    JoinStr([i \in 1..Len(td.a) |->
                IF Nullish(Get(td.a[i], "title")) THEN "" ELSE ToStr(Get(td.a[i], "title"))],
            ", ")

\* ${trendsData ? `<before>${titles}. ` : ''}
TrendsClause(td, before) ==
    IF Truthy(td) THEN before \o Titles(td) \o ". " ELSE ""

ContentPrompt(b) ==
    "Create a " \o ToStr(Or(Get(b, "type"), Str("social media post")))
    \o " about \"" \o ToStr(Get(b, "topic")) \o "\" in a "
    \o ToStr(Or(Get(b, "tone"), Str("engaging")))
    \o " tone. Make it compelling and ready to use."

LeadsPrompt(b) ==
    "Generate a list of 5 real business leads in the " \o ToStr(Get(b, "industry"))
    \o " industry"
    \o Clause(Get(b, "location"), " located in ", "")
    \o Clause(Get(b, "companySize"), " with ", " employees")
    \o ". Format as JSON array with fields: companyName, contactEmail, contactName, phone, website, address."

ProductsPrompt(b) ==
    "Create a " \o ToStr(Get(b, "productType")) \o " about \"" \o ToStr(Get(b, "topic"))
    \o "\" in " \o ToStr(Or(Get(b, "format"), Str("markdown")))
    \o " format. Include a title, introduction, main content sections, and conclusion. Make it comprehensive and valuable."

PromptsPrompt(b) ==
    "Create a high-quality AI prompt for " \o ToStr(Get(b, "category"))
    \o Clause(Get(b, "useCase"), " specifically for ", "")
    \o Clause(Get(b, "style"), " in a ", " style")
    \o ". Make it detailed, effective, and ready to use. Include the prompt text, description, and use cases."

TrendsPrompt(b) ==
    "Analyze current trends in the " \o ToStr(Get(b, "industry")) \o " industry"
    \o Clause(Get(b, "timeframe"), " for the ", "")
    \o Clause(Get(b, "focus"), " focusing on ", "")
    \o ". Provide: 1) Top 5 trends, 2) Market opportunities, 3) Emerging technologies, 4) Consumer behavior shifts, 5) Business ideas. Format as structured analysis."

ResumePrompt(b) ==
    "Create a professional resume for " \o ToStr(Get(b, "name"))
    \o " applying for a " \o ToStr(Get(b, "jobTitle")) \o " position. "
    \o Clause(Get(b, "experience"), "Experience: ", ". ")
    \o Clause(Get(b, "skills"), "Skills: ", ". ")
    \o Clause(Get(b, "education"), "Education: ", ". ")
    \o "Include: Professional Summary, Work Experience, Skills, Education sections. Format as clean, professional resume text."

EmailPrompt(b) ==
    "Write a professional cold email to " \o ToStr(Get(b, "recipientName"))
    \o Clause(Get(b, "recipientCompany"), " at ", "")
    \o ". Purpose: " \o ToStr(Get(b, "purpose")) \o ". "
    \o Clause(Get(b, "valueProposition"), "Value proposition: ", ". ")
    \o Clause(Get(b, "callToAction"), "Call to action: ", ". ")
    \o "Make it personalized, concise, and compelling. Include subject line."

NewsletterPrompt(b, td) ==
    "Create a " \o ToStr(Or(Get(b, "sections"), Str("weekly")))
    \o " newsletter about " \o ToStr(Get(b, "topic"))
    \o " for " \o ToStr(Or(Get(b, "audience"), Str("general audience"))) \o ". "
    \o TrendsClause(td, "Include trending topics: ")
    \o "Include: engaging subject line, introduction, main stories, and conclusion. Make it informative and engaging."

DefaultWordCount == 10000

SeoPrompt(b, td) ==
    "Write a comprehensive SEO-optimized blog post targeting the keyword \""
    \o ToStr(Get(b, "keyword")) \o "\" for "
    \o ToStr(Or(Get(b, "targetAudience"), Str("general readers")))
    \o ". Target word count: " \o ToStr(Or(Get(b, "wordCount"), Num(DefaultWordCount)))
    \o " words. "
    \o TrendsClause(td, "Reference these trending topics: ")
    \o "Include: SEO-optimized title, meta description, H1-H3 headings, keyword-rich content, and conclusion. Make it valuable and search-engine friendly."

\* the prompt a handler sends; v1 sends the request's own prompt
BuildPrompt(ep, b, td) ==
    CASE ep = "content"    -> ContentPrompt(b)
      [] ep = "leads"      -> LeadsPrompt(b)
      [] ep = "products"   -> ProductsPrompt(b)
      [] ep = "prompts"    -> PromptsPrompt(b)
      [] ep = "trends"     -> TrendsPrompt(b)
      [] ep = "resume"     -> ResumePrompt(b)
      [] ep = "email"      -> EmailPrompt(b)
      [] ep = "newsletter" -> NewsletterPrompt(b, td)
      [] ep = "seo"        -> SeoPrompt(b, td)
      [] ep = "v1"         -> Get(b, "prompt").s

\* max_new_tokens with the SEO handler sizing its budget by the requested word count
MaxNewTokensByWordCount(ep, b) ==
    CASE ep = "content"    -> Num(2000)
      [] ep = "leads"      -> Num(3000)
      [] ep = "products"   -> Num(5000)
      [] ep = "prompts"    -> Num(3000)
      [] ep = "trends"     -> Num(4000)
      [] ep = "resume"     -> Num(6000)
      [] ep = "email"      -> Num(3000)
      [] ep = "newsletter" -> Num(8000)
      [] ep = "seo"        -> Or(Get(b, "wordCount"), Num(10000))
      [] ep = "v1"         -> Or(Get(b, "maxTokens"), Num(2000))

\* max_new_tokens of each handler, in tenths
MaxNewTokens(ep, b) ==
    CASE ep = "content"    -> Num(2000)
      [] ep = "leads"      -> Num(3000)
      [] ep = "products"   -> Num(5000)
      [] ep = "prompts"    -> Num(3000)
      [] ep = "trends"     -> Num(4000)
      [] ep = "resume"     -> Num(6000)
      [] ep = "email"      -> Num(3000)
      [] ep = "newsletter" -> Num(8000)
      [] ep = "seo"        -> Num(10000)
      [] ep = "v1"         -> Or(Get(b, "maxTokens"), Num(2000))

\* temperature of each handler, in tenths
Temperature(ep, b) ==
    CASE ep = "resume" -> Num(6)
      [] ep = "v1"     -> Or(Get(b, "temperature"), Num(7))
      [] OTHER         -> Num(7)

ModelId == "mistralai/Mistral-7B-Instruct-v0.2"

\* the POST callHuggingFaceAPI issues
GenerationCall(ep, b, p) ==
    [to |-> "inference",
     model |-> ModelId,
     inputs |-> p,
     parameters |-> [max_new_tokens |-> MaxNewTokens(ep, b),
                     temperature |-> Temperature(ep, b)]]

\* the GET fetchRedditTrends issues
TrendsCall(ep, b) ==
    [to |-> "reddit",
     subreddit |-> IF ep = "newsletter" THEN RemoveWS(Get(b, "topic").s) ELSE "all",
     limit |-> IF ep = "newsletter" THEN 5 ELSE 10]

----------------------------------------------------------------------------
(* JSON.parse, for the texts the lead generator hands it: arrays, objects, *)
(* strings with the simple escapes, integers and one-digit decimals, and   *)
(* the three literals.  A parse is [ok, v, next], next being the index     *)
(* after the value.                                                        *)

ParseFail == [ok |-> FALSE]

Parsed(v, next) == [ok |-> TRUE, v |-> v, next |-> next]

SkipWS(s, i) ==
    LET rest == {j \in i..Len(s) : ~IsWS(CharAt(s, j))}
    IN  IF rest = {} THEN Len(s) + 1 ELSE SetMin(rest)

IsDigit(c) == c \in {"0", "1", "2", "3", "4", "5", "6", "7", "8", "9"}

DigitValue(c) == IndexOf("0123456789", c) - 1

Unescape(c) ==
    CASE c = "n" -> "\n" [] c = "t" -> "\t" [] c = "r" -> "\r" [] OTHER -> c

RECURSIVE ScanString(_, _, _)
\* s[j..] is the inside of a string literal whose text so far is acc
ScanString(s, j, acc) ==
    IF j > Len(s) THEN ParseFail
    ELSE LET c == CharAt(s, j)
         IN  IF c = "\"" THEN Parsed(Str(acc), j + 1)
             ELSE IF c \in {"\n", "\t", "\r"} THEN ParseFail
             ELSE IF c = "\\"
             THEN IF j + 1 <= Len(s) /\ CharAt(s, j + 1) \in {"n", "t", "r", "\"", "\\", "/"}
                  THEN ScanString(s, j + 2, acc \o Unescape(CharAt(s, j + 1)))
                  ELSE ParseFail
             ELSE ScanString(s, j + 1, acc \o c)

RECURSIVE ScanDigits(_, _, _)
\* the integer s[j..] spells after acc, and where its digits end
ScanDigits(s, j, acc) ==
    IF j <= Len(s) /\ IsDigit(CharAt(s, j))
    THEN ScanDigits(s, j + 1, 10 * acc + DigitValue(CharAt(s, j)))
    ELSE [n |-> acc, next |-> j]

ParseNumber(s, i) ==
    LET neg == CharAt(s, i) = "-"
        i1 == IF neg THEN i + 1 ELSE i
        whole == ScanDigits(s, i1, 0)
        leadingZero == whole.next > i1 + 1 /\ CharAt(s, i1) = "0"
        hasFrac == whole.next < Len(s) /\ CharAt(s, whole.next) = "."
                      /\ IsDigit(CharAt(s, whole.next + 1))
        tenths == IF hasFrac THEN 10 * whole.n + DigitValue(CharAt(s, whole.next + 1))
                  ELSE 10 * whole.n
        next == IF hasFrac THEN whole.next + 2 ELSE whole.next
    IN  IF whole.next = i1 \/ leadingZero THEN ParseFail
        ELSE Parsed(Num(IF neg THEN 0 - tenths ELSE tenths), next)

LiteralAt(s, i, word) ==
    i + Len(word) - 1 <= Len(s) /\ SubSeq(s, i, i + Len(word) - 1) = word

RECURSIVE ParseValue(_, _)
RECURSIVE ParseElements(_, _, _)
RECURSIVE ParseMembers(_, _, _)

ParseValue(s, i0) ==
    LET i == SkipWS(s, i0)
        c == CharAt(s, i)
    IN  IF i > Len(s) THEN ParseFail
        ELSE IF c = "[" THEN
            (LET j == SkipWS(s, i + 1)
             IN  IF j <= Len(s) /\ CharAt(s, j) = "]" THEN Parsed(Arr(<<>>), j + 1)
                 ELSE ParseElements(s, i + 1, <<>>))
        ELSE IF c = "{" THEN
            (LET j == SkipWS(s, i + 1)
             IN  IF j <= Len(s) /\ CharAt(s, j) = "}" THEN Parsed(Obj(<<>>), j + 1)
                 ELSE ParseMembers(s, i + 1, <<>>))
        ELSE IF c = "\"" THEN ScanString(s, i + 1, "")
        ELSE IF c = "-" \/ IsDigit(c) THEN ParseNumber(s, i)
        ELSE IF LiteralAt(s, i, "true") THEN Parsed(Bool(TRUE), i + 4)
        ELSE IF LiteralAt(s, i, "false") THEN Parsed(Bool(FALSE), i + 5)
        ELSE IF LiteralAt(s, i, "null") THEN Parsed(Null, i + 4)
        ELSE ParseFail

ParseElements(s, i, acc) ==
    LET r == ParseValue(s, i)
    IN  IF ~r.ok THEN ParseFail
        ELSE LET j == SkipWS(s, r.next)
             IN  IF j > Len(s) THEN ParseFail
                 ELSE IF CharAt(s, j) = "," THEN ParseElements(s, j + 1, Append(acc, r.v))
                 ELSE IF CharAt(s, j) = "]" THEN Parsed(Arr(Append(acc, r.v)), j + 1)
                 ELSE ParseFail

ParseMembers(s, i, acc) ==
    LET k0 == SkipWS(s, i)
        key == IF k0 <= Len(s) /\ CharAt(s, k0) = "\"" THEN ScanString(s, k0 + 1, "")
               ELSE ParseFail
    IN  IF ~key.ok THEN ParseFail
        ELSE LET colon == SkipWS(s, key.next)
             IN  IF colon > Len(s) \/ CharAt(s, colon) # ":" THEN ParseFail
                 ELSE LET r == ParseValue(s, colon + 1)
                      IN  IF ~r.ok THEN ParseFail
                          ELSE LET j == SkipWS(s, r.next)
                                   more == (key.v.s :> r.v) @@ acc
                               IN  IF j > Len(s) THEN ParseFail
                                   ELSE IF CharAt(s, j) = "," THEN ParseMembers(s, j + 1, more)
                                   ELSE IF CharAt(s, j) = "}" THEN Parsed(Obj(more), j + 1)
                                   ELSE ParseFail

\* JSON.parse(s): the value, or a SyntaxError
JsonParse(s) ==
    LET r == ParseValue(s, 1)
    IN  IF r.ok /\ SkipWS(s, r.next) > Len(s) THEN Gives(r.v)
        ELSE Throws("Unexpected token in JSON")

----------------------------------------------------------------------------
(* Text extraction and clean-up, as each handler repeats them *)

\* the handlers whose extraction also tries summary
SummaryEndpoints == {"content", "leads", "products", "prompts", "trends"}

NullRead == "Cannot read properties of null (reading 'generated_text')"

\* content, leads, products, prompts, trends/analyze
ExtractWithSummary(data) ==
    IF IsArray(data) THEN
        LET e == Get0(data)
        IN  Gives(Or(Or(Or(OptGet(e, "generated_text"), OptGet(e, "text")),
                        OptGet(e, "summary")), JsonStringify(e)))
    ELSE IF TypeOf(data) = "object" THEN
        IF Nullish(data) THEN Throws(NullRead)
        ELSE Gives(Or(Or(Or(Or(Get(data, "generated_text"), Get(data, "text")),
                            Get(data, "summary")),
                         OptGet(Get0(data), "generated_text")), JsonStringify(data)))
    ELSE IF TypeOf(data) = "string" THEN Gives(data)
    ELSE Gives(JsonStringify(data))

\* the final branch serializing instead of String(): a bare string gets quoted
ExtractPlainQuoted(data) ==
    IF IsArray(data) THEN
        LET e == Get0(data)
        IN  Gives(Or(Or(OptGet(e, "generated_text"), OptGet(e, "text")), JsonStringify(e)))
    ELSE IF TypeOf(data) = "object" THEN
        IF Nullish(data) THEN Throws(NullRead)
        ELSE Gives(Or(Or(Get(data, "generated_text"), Get(data, "text")), JsonStringify(data)))
    ELSE Gives(JsonStringify(data))

\* resume, email, newsletter, seo, v1/generate
ExtractPlain(data) ==
    IF IsArray(data) THEN
        LET e == Get0(data)
        IN  Gives(Or(Or(OptGet(e, "generated_text"), OptGet(e, "text")), JsonStringify(e)))
    ELSE IF TypeOf(data) = "object" THEN
        IF Nullish(data) THEN Throws(NullRead)
        ELSE Gives(Or(Or(Get(data, "generated_text"), Get(data, "text")), JsonStringify(data)))
    ELSE Gives(Str(ToStr(data)))

\* let generatedText = ...
Extract(ep, data) ==
    IF ep \in SummaryEndpoints THEN ExtractWithSummary(data) ELSE ExtractPlain(data)

\* g.replace(prompt, '').replace(/^[\s\n]+|[\s\n]+$/g, '').trim()
Stripped(g, p) == Trim(Trim(RemoveFirst(g, p)))

\* ... || generatedText.trim(); throws when generatedText is no string
Clean(g, p) ==
    IF ~IsString(g) THEN Throws("generatedText.replace is not a function")
    ELSE Gives(Str(IF Stripped(g.s, p) # "" THEN Stripped(g.s, p) ELSE Trim(g.s)))

----------------------------------------------------------------------------
(* Lead-list structuring *)

AddressLen == 50

LineLeadCap == 5

SampleLeadCount == 5

\* generatedText.match(/\[[\s\S]*\]/): the first "[" up to the last "]" after it
JsonMatch(s) ==
    LET open == IndexOf(s, "[")
        closes == {j \in 1..Len(s) : CharAt(s, j) = "]" /\ j > open}
    IN  IF open = 0 \/ closes = {} THEN Null
        ELSE Str(SubSeq(s, open, SetMax(closes)))

\* idx is zero-based, as in the map callbacks
PhoneOf(idx) == "+1-555-000-" \o NatToStr(1000 + idx)

\* the record made of one line of text
LineLead(line, idx) ==
    Obj([companyName |-> Str("Company " \o NatToStr(idx + 1)),
         contactEmail |-> Str("contact" \o NatToStr(idx + 1) \o "@example.com"),
         contactName |-> Str("Contact " \o NatToStr(idx + 1)),
         phone |-> Str(PhoneOf(idx)),
         website |-> Str("https://example" \o NatToStr(idx + 1) \o ".com"),
         address |-> Str(Substring0(line, AddressLen))])

\* lines.slice(0, 5).map(...) over the non-blank lines
LineLeads(s) ==
    LET lines == SelectSeq(SplitLines(s), LAMBDA l : Trim(l) # "")
        n == IF Len(lines) < LineLeadCap THEN Len(lines) ELSE LineLeadCap
    IN  Arr([i \in 1..n |-> LineLead(lines[i], i - 1)])

\* the catch block's sample record
SampleLead(b, idx) ==
    LET industry == Get(b, "industry").s
        slug == RemoveWS(ToLowerCase(industry))
    IN  Obj([companyName |-> Str(industry \o " Company " \o NatToStr(idx + 1)),
             contactEmail |-> Str("contact" \o NatToStr(idx + 1) \o "@" \o slug \o ".com"),
             contactName |-> Str("John Doe " \o NatToStr(idx + 1)),
             phone |-> Str(PhoneOf(idx)),
             website |-> Str("https://" \o slug \o NatToStr(idx + 1) \o ".com"),
             address |-> Str(ToStr(Or(Get(b, "location"), Str("City"))) \o ", State")])

SampleLeads(b) == Arr([i \in 1..SampleLeadCount |-> SampleLead(b, i - 1)])

\* the try/catch that turns generatedText into leads
StructureLeads(g, b) ==
    IF ~IsString(g) THEN SampleLeads(b)
    ELSE LET m == JsonMatch(g.s)
         IN  IF Truthy(m)
             THEN (IF JsonParse(m.s).ok THEN JsonParse(m.s).v ELSE SampleLeads(b))
             ELSE LineLeads(g.s)

\* leads.length
LengthOf(v) ==
    CASE v.t = "array" -> Num(10 * Len(v.a))
      [] v.t = "string" -> Num(10 * Len(v.s))
      [] OTHER -> Get(v, "length")

----------------------------------------------------------------------------
(* Responses *)

NoResponse == [status |-> 0, body |-> Undef]

\* no reply received
NoReply == [kind |-> "none"]

\* the catch block answering in the shape of the global error handler
InternalErrorNoDetails(message) ==
    [status |-> 500,
     body |-> Obj([error |-> Str("Internal server error"), message |-> Str(message)])]

\* the catch block of every handler
InternalError(message) ==
    [status |-> 500,
     body |-> Obj([error |-> Str("Internal server error"), details |-> Str(message)])]

\* return res.status(500).json(result)
UpstreamFailure(result) == [status |-> 500, body |-> result]

Yes == Bool(TRUE)

\* new Date().toISOString() when the clock reads now seconds
Timestamp(now) == Str(IsoOfSeconds(now))

\* the number of whitespace-separated pieces, as a number
WordCount(text) == Num(10 * SplitWSLength(text.s))

ContentBody(b, text) ==
    Obj([success |-> Yes,
         content |-> Or(text, Str("Content generated successfully")),
         topic |-> Get(b, "topic"),
         type |-> Or(Get(b, "type"), Str("social media post"))])

LeadsBody(b, leads) ==
    Obj([success |-> Yes,
         leads |-> leads,
         count |-> LengthOf(leads),
         industry |-> Get(b, "industry"),
         location |-> Or(Get(b, "location"), Str("Anywhere"))])

\* the product payload without its timestamp
ProductsBodyUnstamped(b, text, now) ==
    Obj([success |-> Yes,
         product |-> Obj([type |-> Get(b, "productType"),
                          topic |-> Get(b, "topic"),
                          format |-> Or(Get(b, "format"), Str("markdown")),
                          content |-> text,
                          wordCount |-> WordCount(text)])])

ProductsBody(b, text, now) ==
    Obj([success |-> Yes,
         product |-> Obj([type |-> Get(b, "productType"),
                          topic |-> Get(b, "topic"),
                          format |-> Or(Get(b, "format"), Str("markdown")),
                          content |-> text,
                          wordCount |-> WordCount(text),
                          createdAt |-> Timestamp(now)])])

PromptsBody(b, text, now) ==
    Obj([success |-> Yes,
         prompt |-> Obj([id |-> Str("prompt-" \o NatToStr(now) \o "000"),
                         category |-> Get(b, "category"),
                         useCase |-> Or(Get(b, "useCase"), Str("General")),
                         style |-> Or(Get(b, "style"), Str("Professional")),
                         text |-> text,
                         description |-> Str("AI prompt for " \o ToStr(Get(b, "category"))),
                         createdAt |-> Timestamp(now),
                         price |-> Num(0)])])

TrendsBody(b, text, now) ==
    Obj([success |-> Yes,
         analysis |-> Obj([industry |-> Get(b, "industry"),
                           timeframe |-> Or(Get(b, "timeframe"), Str("Current")),
                           focus |-> Or(Get(b, "focus"), Str("General")),
                           content |-> text,
                           generatedAt |-> Timestamp(now)])])

ResumeBody(b, text, now) ==
    Obj([success |-> Yes,
         resume |-> Obj([name |-> Get(b, "name"),
                         email |-> Or(Get(b, "email"), Str("")),
                         phone |-> Or(Get(b, "phone"), Str("")),
                         jobTitle |-> Get(b, "jobTitle"),
                         content |-> text,
                         createdAt |-> Timestamp(now)])])

EmailBody(b, text, now) ==
    Obj([success |-> Yes,
         email |-> Obj([recipientName |-> Get(b, "recipientName"),
                        recipientCompany |-> Or(Get(b, "recipientCompany"), Str("")),
                        purpose |-> Get(b, "purpose"),
                        content |-> text,
                        createdAt |-> Timestamp(now)])])

NewsletterBody(b, text, td, now) ==
    Obj([success |-> Yes,
         newsletter |-> Obj([topic |-> Get(b, "topic"),
                             audience |-> Or(Get(b, "audience"), Str("general audience")),
                             sections |-> Or(Get(b, "sections"), Str("weekly")),
                             content |-> text,
                             trends |-> td,
                             createdAt |-> Timestamp(now)])])

SeoBody(b, text, td, now) ==
    Obj([success |-> Yes,
         blog |-> Obj([keyword |-> Get(b, "keyword"),
                       targetAudience |-> Or(Get(b, "targetAudience"), Str("general readers")),
                       wordCount |-> WordCount(text),
                       content |-> text,
                       trends |-> td,
                       createdAt |-> Timestamp(now)])])

V1Body(b, text, now) ==
    Obj([success |-> Yes,
         data |-> Obj([text |-> text,
                       model |-> Or(Get(b, "model"), Str(ModelId)),
                       tokens |-> WordCount(text),
                       createdAt |-> Timestamp(now)])])

\* res.json({ success: true, ... }) of each handler but the lead generator
SuccessBody(ep, b, text, td, now) ==
    CASE ep = "content"    -> ContentBody(b, text)
      [] ep = "products"   -> ProductsBody(b, text, now)
      [] ep = "prompts"    -> PromptsBody(b, text, now)
      [] ep = "trends"     -> TrendsBody(b, text, now)
      [] ep = "resume"     -> ResumeBody(b, text, now)
      [] ep = "email"      -> EmailBody(b, text, now)
      [] ep = "newsletter" -> NewsletterBody(b, text, td, now)
      [] ep = "seo"        -> SeoBody(b, text, td, now)
      [] ep = "v1"         -> V1Body(b, text, now)

\* a handler returning on a failed generation without writing a response
FinishSilent(ep, b, p, td, result, now) ==
    IF Truthy(Get(result, "error")) THEN NoResponse
    ELSE LET g == Extract(ep, Get(result, "data"))
         IN  IF ~g.ok THEN InternalError(g.message)
             ELSE IF ep = "leads"
             THEN [status |-> 200, body |-> LeadsBody(b, StructureLeads(g.v, b))]
             ELSE LET text == Clean(g.v, p)
                  IN  IF ~text.ok THEN InternalError(text.message)
                      ELSE [status |-> 200, body |-> SuccessBody(ep, b, text.v, td, now)]

\* a handler from "if (result.error)" to its response
Finish(ep, b, p, td, result, now) ==
    IF Truthy(Get(result, "error")) THEN UpstreamFailure(result)
    ELSE LET g == Extract(ep, Get(result, "data"))
         IN  IF ~g.ok THEN InternalError(g.message)
             ELSE IF ep = "leads"
             THEN [status |-> 200, body |-> LeadsBody(b, StructureLeads(g.v, b))]
             ELSE LET text == Clean(g.v, p)
                  IN  IF ~text.ok THEN InternalError(text.message)
                      ELSE [status |-> 200, body |-> SuccessBody(ep, b, text.v, td, now)]

----------------------------------------------------------------------------
(* Trend enrichment in the newsletter and SEO handlers *)

FilterCap == 5

\* whether p.title.toLowerCase() or p.subreddit.toLowerCase() throws
MatchThrows(post, keyword) ==
    \/ ~IsString(Get(post, "title"))
    \/ /\ ~Contains(ToLowerCase(Get(post, "title").s), ToLowerCase(keyword))
       /\ ~IsString(Get(post, "subreddit"))

Matches(post, keyword) ==
    \/ Contains(ToLowerCase(Get(post, "title").s), ToLowerCase(keyword))
    \/ Contains(ToLowerCase(Get(post, "subreddit").s), ToLowerCase(keyword))

\* a failed fetch treated as fatal
TrendsFromStrict(ep, b, redditResult) ==
    IF ~Truthy(Get(redditResult, "success")) THEN Throws(ToStr(Get(redditResult, "error")))
    ELSE Gives(Get(Get(redditResult, "data"), "posts"))

\* trendsData after "if (includeTrends) { ... }", or the TypeError of the filter
TrendsFrom(ep, b, redditResult) ==
    IF ~Truthy(Get(redditResult, "success")) THEN Gives(Null)
    ELSE LET posts == Get(Get(redditResult, "data"), "posts")
             keyword == Get(b, "keyword").s
         IN  IF ep = "newsletter" THEN Gives(posts)
             ELSE IF \E i \in 1..Len(posts.a) : MatchThrows(posts.a[i], keyword)
             THEN Throws("Cannot read properties of undefined (reading 'toLowerCase')")
             ELSE LET kept == SelectSeq(posts.a, LAMBDA q : Matches(q, keyword))
                  IN  Gives(Arr(IF Len(kept) <= FilterCap THEN kept
                                ELSE SubSeq(kept, 1, FilterCap)))

----------------------------------------------------------------------------
(* The requests and upstream replies the model is run on *)

\* the clock readings a response may be stamped with
MaxClock == 2

\* how far past the excerpt length the longest error body runs
Overrun == 1

RequiredValues ==
    {Undef, Null, Str(""), Str("  "), Num(50), Arr(<<Str("AI")>>),
     Str("AI"), Str(" Solar Power ")}

OptionalValues == {Undef, Str("Zed")}

Flags == {Undef, Bool(TRUE)}

RequestBodies(ep) ==
    CASE ep = "content" ->
            {Obj([topic |-> a, type |-> x, tone |-> y]) :
                a \in RequiredValues, x \in OptionalValues \cup {Str("")}, y \in OptionalValues}
      [] ep = "leads" ->
            {Obj([industry |-> a, location |-> x, companySize |-> y]) :
                a \in RequiredValues, x \in OptionalValues, y \in OptionalValues}
      [] ep = "products" ->
            {Obj([productType |-> a, topic |-> c, format |-> x]) :
                a \in RequiredValues, c \in RequiredValues, x \in OptionalValues}
      [] ep = "prompts" ->
            {Obj([category |-> a, useCase |-> x, style |-> y]) :
                a \in RequiredValues, x \in OptionalValues, y \in OptionalValues}
      [] ep = "trends" ->
            {Obj([industry |-> a, timeframe |-> x, focus |-> y]) :
                a \in RequiredValues, x \in OptionalValues, y \in OptionalValues}
      [] ep = "resume" ->
            {Obj([name |-> a, jobTitle |-> c, email |-> x, experience |-> y,
                  skills |-> z, education |-> w]) :
                a \in RequiredValues, c \in RequiredValues, x \in OptionalValues,
                y \in OptionalValues, z \in OptionalValues, w \in OptionalValues}
      [] ep = "email" ->
            {Obj([recipientName |-> a, purpose |-> c, recipientCompany |-> x,
                  valueProposition |-> y, callToAction |-> z]) :
                a \in RequiredValues, c \in RequiredValues, x \in OptionalValues,
                y \in OptionalValues, z \in OptionalValues}
      [] ep = "newsletter" ->
            {Obj([topic |-> a, audience |-> x, sections |-> y, includeTrends |-> i]) :
                a \in RequiredValues, x \in OptionalValues, y \in OptionalValues, i \in Flags}
      [] ep = "seo" ->
            {Obj([keyword |-> a, targetAudience |-> x, wordCount |-> y, includeTrends |-> i]) :
                a \in RequiredValues, x \in OptionalValues, y \in {Undef, Num(5000)},
                i \in Flags}
      [] ep = "v1" ->
            {Obj([prompt |-> a, model |-> x, maxTokens |-> y, temperature |-> z]) :
                a \in RequiredValues, x \in {Undef, Str("gpt2")},
                y \in {Undef, Num(5000), Num(-50), Num(15)},
                z \in {Undef, Num(3), Num(50)}}

\* generated texts; p is the prompt, which a backend may echo
Texts(p) ==
    {"X y", "", "  ", " padded\n", p, p \o "\n\nAnswer: Z", "Sure. " \o p \o " Done.",
     "Acme Corp", "l1\n\nl2\nl3\nl4\nl5\nl6",
     "[{\"companyName\":\"Acme\"},{\"companyName\":\"Bolt\"}]",
     "Leads: [1, 2] and more [3] here", "see [oops]"}

\* parsed bodies of a 2xx reply
DataValues(p) ==
    UNION {{Arr(<<Obj([generated_text |-> Str(x)])>>),
            Obj([text |-> Str(x)]),
            Str(x),
            Obj([summary |-> Str(x)]),
            Arr(<<Obj([summary |-> Str(x)])>>)} : x \in Texts(p)}
    \cup {Arr(<<>>), Arr(<<Null>>), Null, Num(50), Arr(<<Num(50)>>), Obj(<<>>),
          Obj([error |-> Str("Model too busy")]), Arr(<<Arr(<<>>)>>),
          Arr(<<Arr(<<Obj([generated_text |-> Str("X y")])>>)>>),
          Obj([generated_text |-> Num(50)]), Bool(TRUE), Arr(<<Str("X y")>>)}

ErrorTexts ==
    {Gives("Unauthorized"), Gives(ModelLoadingDetails),
     Gives(Repeat("e", ExcerptLen)),
     Gives(Repeat("e", ExcerptLen - 1) \o Repeat("X", Overrun + 1)),
     Throws("Premature close")}

ErrorStatuses ==
    {<<401, "Unauthorized">>, <<500, "Internal Server Error">>,
     <<ModelLoadingStatus, "Service Unavailable">>}

\* what the inference backend may answer to a POST whose inputs are p
GenerationReplies(p) ==
    {Reject("socket hang up")}
    \cup {Response(st[1], st[2], t, Throws("Unexpected token")) :
             st \in ErrorStatuses, t \in ErrorTexts}
    \cup {Response(200, "OK", Gives(""), Throws("Unexpected token < in JSON"))}
    \cup {Response(200, "OK", Gives(""), Gives(d)) : d \in DataValues(p)}

Child(title, subreddit) ==
    Obj([data |-> Obj([title |-> title, score |-> Num(1200), subreddit |-> subreddit,
                       permalink |-> Str("/r/x/1"), created_utc |-> Num(17000)])])

Listing(children) == Obj([data |-> Obj([children |-> Arr(children)])])

Listings ==
    {Listing(<<>>),
     Obj(<<>>),
     Null,
     Listing(<<Child(Str("AI boom"), Str("tech")), Child(Str("Cats"), Str("aww"))>>),
     Listing(<<Child(Str("Cats"), Str("aww"))>>),
     Listing([i \in 1..6 |-> Child(Str("Solar power " \o NatToStr(i)), Str("energy"))]),
     Listing(<<Child(Undef, Str("aww"))>>),
     Listing(<<Obj(<<>>)>>)}

\* what the feed may answer
TrendsReplies ==
    {Reject("getaddrinfo ENOTFOUND"),
     Response(429, "Too Many Requests", Gives(""), Throws("Unexpected token")),
     Response(500, "Internal Server Error", Gives(""), Throws("Unexpected token")),
     Response(200, "OK", Gives(""), Throws("Unexpected token < in JSON"))}
    \cup {Response(200, "OK", Gives(""), Gives(l)) : l \in Listings}

----------------------------------------------------------------------------
(* The handler of one request, cut at its awaits on the network *)

\* from the prompt template to the await inside callHuggingFaceAPI
Generate(ep, b, td, calls) ==
    LET p == BuildPrompt(ep, b, td)
    IN  /\ prompt' = p
        /\ trendsData' = td
        /\ IF KeyMissing(apiKey)
           THEN /\ res' = UpstreamFailure(NotConfiguredResult)
                /\ net' = calls
                /\ pc' = "done"
           ELSE /\ res' = res
                /\ net' = Append(calls, GenerationCall(ep, b, p))
                /\ pc' = "generate"

\* the handler starting the trends fetch and the generation together
ReceiveParallel(ep, b) ==
    /\ pc = "idle"
    /\ endpoint' = ep
    /\ body' = b
    /\ apiKey' = apiKey
    /\ UNCHANGED <<trendsReply, genReply>>
    /\ IF ~Valid(ep, b)
       THEN /\ res' = Rejection(ep, b)
            /\ pc' = "done"
            /\ UNCHANGED <<trendsData, prompt, net>>
       ELSE IF ep \in TrendEndpoints /\ Truthy(Get(b, "includeTrends"))
       THEN Generate(ep, b, Null, <<TrendsCall(ep, b)>>)
       ELSE Generate(ep, b, Null, <<>>)

\* a POST arrives: validation, then the first remote call
Receive(ep, b) ==
    /\ pc = "idle"
    /\ endpoint' = ep
    /\ body' = b
    /\ apiKey' = apiKey
    /\ UNCHANGED <<trendsReply, genReply>>
    /\ IF ~Valid(ep, b)
       THEN /\ res' = Rejection(ep, b)
            /\ pc' = "done"
            /\ UNCHANGED <<trendsData, prompt, net>>
       ELSE IF ep \in TrendEndpoints /\ Truthy(Get(b, "includeTrends"))
       THEN /\ net' = <<TrendsCall(ep, b)>>
            /\ pc' = "trends"
            /\ UNCHANGED <<trendsData, prompt, res>>
       ELSE Generate(ep, b, Null, <<>>)

\* the trends fetch settles
TrendsSettled(reply) ==
    /\ pc = "trends"
    /\ UNCHANGED <<apiKey, endpoint, body, genReply>>
    /\ trendsReply' = reply
    /\ LET td == TrendsFrom(endpoint, body, RedditResult(reply))
       IN  IF ~td.ok
           THEN /\ res' = InternalError(td.message)
                /\ pc' = "done"
                /\ UNCHANGED <<trendsData, prompt, net>>
           ELSE Generate(endpoint, body, td.v, net)

\* the handler repeating the POST when the client reports an error
GenerationSettledRetry(reply, now) ==
    /\ pc = "generate"
    /\ genReply' = reply
    /\ UNCHANGED <<apiKey, endpoint, body, trendsData, prompt, trendsReply>>
    /\ IF Truthy(Get(HFResult(reply), "error")) /\ Len(net) < 3
       THEN /\ net' = Append(net, net[Len(net)])
            /\ pc' = "generate"
            /\ res' = res
       ELSE /\ net' = net
            /\ pc' = "done"
            /\ res' = Finish(endpoint, body, prompt, trendsData, HFResult(reply), now)

\* the generation POST settles, the clock reading now
GenerationSettled(reply, now) ==
    /\ pc = "generate"
    /\ res' = Finish(endpoint, body, prompt, trendsData, HFResult(reply), now)
    /\ pc' = "done"
    /\ genReply' = reply
    /\ UNCHANGED <<apiKey, endpoint, body, trendsData, prompt, net, trendsReply>>

\* the request is over; the process serves the next one
NextRequest ==
    /\ pc = "done"
    /\ pc' = "idle"
    /\ endpoint' = "none"
    /\ body' = Undef
    /\ trendsData' = Null
    /\ prompt' = ""
    /\ net' = <<>>
    /\ trendsReply' = NoReply
    /\ genReply' = NoReply
    /\ res' = NoResponse
    /\ apiKey' = apiKey

Init ==
    /\ apiKey \in {"", "hf_token"}
    /\ pc = "idle"
    /\ endpoint = "none"
    /\ body = Undef
    /\ trendsData = Null
    /\ prompt = ""
    /\ net = <<>>
    /\ trendsReply = NoReply
    /\ genReply = NoReply
    /\ res = NoResponse

Next ==
    \/ \E ep \in Endpoints : \E b \in RequestBodies(ep) : Receive(ep, b)
    \/ \E reply \in TrendsReplies : TrendsSettled(reply)
    \/ \E reply \in GenerationReplies(prompt) : \E now \in 1..MaxClock :
          GenerationSettled(reply, now)
    \/ NextRequest

Spec == Init /\ [][Next]_vars

----------------------------------------------------------------------------
(* Properties *)

\* the field of a 200 body that carries the generated text; the lead generator has none
TextField(ep, b) ==
    CASE ep = "content"    -> Get(b, "content")
      [] ep = "products"   -> Get(Get(b, "product"), "content")
      [] ep = "prompts"    -> Get(Get(b, "prompt"), "text")
      [] ep = "trends"     -> Get(Get(b, "analysis"), "content")
      [] ep = "resume"     -> Get(Get(b, "resume"), "content")
      [] ep = "email"      -> Get(Get(b, "email"), "content")
      [] ep = "newsletter" -> Get(Get(b, "newsletter"), "content")
      [] ep = "seo"        -> Get(Get(b, "blog"), "content")
      [] ep = "v1"         -> Get(Get(b, "data"), "text")
      [] OTHER             -> Undef

\* the request is being handled or has been answered
InHand == pc # "idle"

\* the generation POST was answered 2xx with the parsed body d
Answered(d) ==
    /\ genReply.kind = "response"
    /\ genReply.status = 200
    /\ genReply.json.ok
    /\ genReply.json.v = d

\* a value that is no string, or a string that is empty once trimmed
Blank(v) == IF v.t = "string" THEN Trim(v.s) = "" ELSE TRUE

\* some required field of the request in hand is missing, no string or blank
SomeRequiredBlank ==
    \E i \in 1..Len(Required(endpoint)) : Blank(Get(body, Required(endpoint)[i][1]))

\* C1: on each of the ten endpoints, a request with a required field that is
\* missing, not a string or empty after trimming is answered 400, and no
\* outbound call (trends fetch or generation POST) is issued for it.
C1_InvalidRejectedBeforeAnyCall ==
    (InHand /\ SomeRequiredBlank)
        => (pc = "done" /\ res.status = 400 /\ net = <<>>
            /\ trendsReply = NoReply /\ genReply = NoReply)

\* a newsletter request asking for trends whose topic is blank was rejected
C1_Witness ==
    /\ pc = "done"
    /\ endpoint = "newsletter"
    /\ Get(body, "includeTrends") = Bool(TRUE)
    /\ Get(body, "topic") = Str("  ")
    /\ res.status = 400

\* callHuggingFaceAPI has been entered for the request in hand
ClientEntered == prompt # ""

\* C2: with no inference credential configured, callHuggingFaceAPI returns an
\* error result whose message contains "not configured" and no request goes
\* to the inference backend, whatever the endpoint, input and options.
C2_NoCredentialFailsFast ==
    (apiKey = "" /\ InHand) =>
        /\ pc # "generate"
        /\ genReply = NoReply
        /\ \A i \in 1..Len(net) : net[i].to # "inference"
        /\ ClientEntered =>
              /\ pc = "done"
              /\ IsString(Get(res.body, "error"))
              /\ Contains(Get(res.body, "error").s, "not configured")
              /\ ~Truthy(Get(res.body, "success"))

\* the client was entered without a credential after a trends fetch
C2_Witness ==
    /\ apiKey = ""
    /\ pc = "done"
    /\ ClientEntered
    /\ endpoint = "seo"
    /\ Len(net) = 1
    /\ Contains(Get(res.body, "error").s, "not configured")

\* the texts the normalization claim speaks of: non-empty, no surrounding
\* whitespace, not containing the prompt
PlainTexts == {x \in Texts(prompt) : x # "" /\ Trim(x) = x /\ ~Contains(x, prompt)}

\* the three body shapes carrying text x
ThreeShapes(x) ==
    {Arr(<<Obj([generated_text |-> Str(x)])>>), Obj([text |-> Str(x)]), Str(x)}

\* C3: on every endpoint, the bodies [{"generated_text": X}], {"text": X} and
\* the bare string X all lead to the extracted generated text X.
C3_ThreeShapesSameText ==
    \A x \in PlainTexts : \A d \in ThreeShapes(x) :
        (pc = "done" /\ Answered(d)) =>
            /\ res.status = 200
            /\ endpoint # "leads" => TextField(endpoint, res.body) = Str(x)
            /\ endpoint = "leads" => Get(res.body, "leads") = StructureLeads(Str(x), body)

\* a bare string came back on an endpoint whose extraction ends in String()
C3_Witness ==
    /\ pc = "done"
    /\ endpoint = "email"
    /\ Answered(Str("X y"))
    /\ TextField(endpoint, res.body) = Str("X y")

\* the generation POST was answered 2xx with the generated text x in one of
\* the three shapes
AnsweredText(x) == \E d \in ThreeShapes(x) : Answered(d)

\* C4: on every endpoint and for every prompt P, generated text P followed by
\* "\n\nAnswer: Z" is returned to the caller as exactly "Answer: Z".
C4_EchoStrippedEverywhere ==
    (pc = "done" /\ AnsweredText(prompt \o "\n\nAnswer: Z")) =>
        /\ res.status = 200
        /\ endpoint # "leads" => TextField(endpoint, res.body) = Str("Answer: Z")
        /\ endpoint = "leads" =>
              Get(res.body, "leads") = StructureLeads(Str("Answer: Z"), body)

\* the same, on the nine endpoints that return a generated text
C4_EchoStrippedOutsideLeads ==
    (pc = "done" /\ endpoint # "leads" /\ AnsweredText(prompt \o "\n\nAnswer: Z")) =>
        /\ res.status = 200
        /\ TextField(endpoint, res.body) = Str("Answer: Z")

\* the generation POST was answered with a non-2xx status and a readable body
AnsweredError ==
    /\ genReply.kind = "response"
    /\ ~(genReply.status \in 200..299)
    /\ genReply.text.ok

\* "API request failed: <status> <statusText>"
StatusLine == "API request failed: " \o NatToStr(genReply.status) \o " " \o genReply.statusText

\* C5 as stated: on a 503 the message of the error result says the model is
\* loading, and no other status produces that message.
C5_MessageSaysLoading ==
    (pc = "done" /\ AnsweredError /\ genReply.status = 503) =>
        /\ IsString(Get(res.body, "error"))
        /\ Contains(Get(res.body, "error").s, "loading")

\* C5 as amended: on a 503 whose body can be read, the details of the error
\* result (not its message) are the fixed model-is-loading text, whatever the
\* body; the message is the status line every non-2xx status gets, which
\* differs between statuses by the status code it carries.
C5_DetailsSayLoading ==
    (pc = "done" /\ AnsweredError) =>
        /\ res.status = 500
        /\ Get(res.body, "error") = Str(StatusLine)
        /\ ~Contains(Get(res.body, "error").s, "loading")
        /\ genReply.status = 503 =>
              Get(res.body, "details") =
                  Str("Model is currently loading. Please try again in a few moments.")

\* a 503 whose body says something else was answered
C5_Witness ==
    /\ pc = "done"
    /\ AnsweredError
    /\ genReply.status = 503
    /\ genReply.text.v = "Unauthorized"
    /\ Contains(Get(res.body, "details").s, "loading")

\* C6: for a non-2xx status other than 503 the error result carries the
\* status code and the first 200 characters of the body, and the endpoint
\* answers 500 with that result as its body.
C6_StatusAndExcerpt ==
    (pc = "done" /\ AnsweredError /\ genReply.status # 503) =>
        LET details == Get(res.body, "details")
            text == genReply.text.v
        IN  /\ res.status = 500
            /\ DOMAIN res.body.f = {"error", "details"}
            /\ Contains(Get(res.body, "error").s, NatToStr(genReply.status))
            /\ IsString(details)
            /\ Len(details.s) <= 200
            /\ Len(details.s) = (IF Len(text) < 200 THEN Len(text) ELSE 200)
            /\ StartsWith(text, details.s)

\* a body longer than the excerpt was cut
C6_Witness ==
    /\ pc = "done"
    /\ AnsweredError
    /\ genReply.status = 401
    /\ Len(genReply.text.v) > 200
    /\ Len(Get(res.body, "details").s) = 200

\* the exception callHuggingFaceAPI caught for the reply in genReply, "" if none
Caught ==
    CASE genReply.kind = "reject" -> genReply.message
      [] genReply.kind = "response" /\ genReply.status \in 200..299 /\ ~genReply.json.ok ->
            genReply.json.message
      [] genReply.kind = "response" /\ ~(genReply.status \in 200..299) /\ ~genReply.text.ok ->
            genReply.text.message
      [] OTHER -> ""

\* C7: an exception of the transport, or of reading or parsing the body,
\* becomes the failed-to-connect error result with the exception's message as
\* details; nothing escapes the client, and the endpoint answers 500.
C7_ExceptionsBecomeResults ==
    (pc = "done" /\ Caught # "") =>
        res = [status |-> 500,
               body |-> Obj([error |-> Str("Failed to connect to AI service"),
                             details |-> Str(Caught)])]

\* a 2xx body that does not parse was answered
C7_Witness ==
    /\ pc = "done"
    /\ endpoint = "resume"
    /\ genReply.kind = "response"
    /\ genReply.status = 200
    /\ ~genReply.json.ok
    /\ res.status = 500

\* the text the lead generator extracted from the reply in genReply
Generated == Extract(endpoint, Get(HFResult(genReply), "data"))

\* some "[" of s has a "]" after it
HasArrayShape(s) ==
    \E i \in 1..Len(s) : \E j \in 1..Len(s) :
        i < j /\ CharAt(s, i) = "[" /\ CharAt(s, j) = "]"

LeadFields == {"companyName", "contactEmail", "contactName", "phone", "website", "address"}

\* v is a lead record with the six fields, each a non-empty string
FullLead(v) ==
    /\ v.t = "object"
    /\ \A k \in LeadFields : IsString(Get(v, k)) /\ Get(v, k).s # ""

\* C8: whenever the generated text has no JSON-array-shaped substring, the
\* lead list has exactly 5 records, whatever the number of non-blank lines,
\* each with the six fields non-empty.
C8_FiveLeadsWithoutArray ==
    (/\ pc = "done"
     /\ endpoint = "leads"
     /\ res.status = 200
     /\ Generated.ok
     /\ IsString(Generated.v)
     /\ ~HasArrayShape(Generated.v.s)) =>
        LET leads == Get(res.body, "leads")
        IN  /\ IsArray(leads)
            /\ Len(leads.a) = 5
            /\ \A i \in 1..Len(leads.a) : FullLead(leads.a[i])

\* the trends fetch of the request in hand failed
FetchFailed ==
    \/ trendsReply.kind = "reject"
    \/ trendsReply.kind = "response" /\ ~(trendsReply.status \in 200..299)

\* C9: on the newsletter and SEO endpoints with includeTrends set, a failed
\* trends fetch never fails the request: the prompt has no trends clause, the
\* generation call is still made, and the response is the one the generation
\* outcome alone determines.
C9_FailedFetchOnlyDropsClause ==
    (InHand /\ FetchFailed) =>
        /\ endpoint \in {"newsletter", "seo"}
        /\ pc \in {"generate", "done"}
        /\ ~Contains(prompt, "trending topics")
        /\ prompt = BuildPrompt(endpoint, body, Null)
        /\ apiKey # "" =>
              /\ Len(net) = 2
              /\ net[2].to = "inference"
              /\ net[2].inputs = prompt
        /\ (pc = "done" /\ apiKey # "") =>
              \E now \in 1..MaxClock :
                  res = Finish(endpoint, body, prompt, Null, HFResult(genReply), now)
        /\ (pc = "done" /\ apiKey = "") => res = UpstreamFailure(NotConfiguredResult)

\* a newsletter whose trends fetch was rejected was answered 200
C9_Witness ==
    /\ pc = "done"
    /\ endpoint = "newsletter"
    /\ trendsReply.kind = "reject"
    /\ res.status = 200
    /\ Get(Get(res.body, "newsletter"), "trends") = Null

\* the object of a 200 body that holds the tool's payload: the body itself on
\* the content and leads endpoints, a nested object elsewhere
Payload(ep, b) ==
    CASE ep = "products"   -> Get(b, "product")
      [] ep = "prompts"    -> Get(b, "prompt")
      [] ep = "trends"     -> Get(b, "analysis")
      [] ep = "resume"     -> Get(b, "resume")
      [] ep = "email"      -> Get(b, "email")
      [] ep = "newsletter" -> Get(b, "newsletter")
      [] ep = "seo"        -> Get(b, "blog")
      [] ep = "v1"         -> Get(b, "data")
      [] OTHER             -> b

\* the payload has a creation timestamp
Stamped(pl) ==
    \E k \in {"createdAt", "generatedAt"} : IsString(Get(pl, k)) /\ Get(pl, k).s # ""

\* the key under which a request field is echoed
EchoKey(field) == IF field = "productType" THEN "type" ELSE field

\* each required field of the request is in the payload, unchanged
EchoesRequired(pl) ==
    \A i \in 1..Len(Required(endpoint)) :
        Get(pl, EchoKey(Required(endpoint)[i][1])) = Get(body, Required(endpoint)[i][1])

\* the generated text after echo stripping and trimming, Undef if there is none
NormalizedText ==
    IF Generated.ok /\ IsString(Generated.v) THEN Clean(Generated.v, prompt).v ELSE Undef

\* C10 as stated: every 200 response is an envelope with success true whose
\* payload has the normalized generated text, the echoed input fields and a
\* creation timestamp.
C10_EveryOkHasTextEchoStamp ==
    (pc = "done" /\ res.status = 200) =>
        LET pl == Payload(endpoint, res.body)
        IN  /\ Get(res.body, "success") = Bool(TRUE)
            /\ TextField(endpoint, res.body) = NormalizedText
            /\ EchoesRequired(pl)
            /\ Stamped(pl)

\* C10 as amended: every 200 response is an envelope with success true; its
\* payload has the normalized generated text except on the lead generator,
\* which returns the lead list and its count (content substitutes a fixed
\* sentence for an empty text); it echoes the required input fields except on
\* v1/generate; and it has a creation timestamp except on content and leads.
C10_OkEnvelope ==
    (pc = "done" /\ res.status = 200) =>
        LET pl == Payload(endpoint, res.body)
        IN  /\ Get(res.body, "success") = Bool(TRUE)
            /\ endpoint # "leads" =>
                  TextField(endpoint, res.body) =
                      (IF endpoint = "content" /\ NormalizedText = Str("")
                       THEN Str("Content generated successfully")
                       ELSE NormalizedText)
            /\ endpoint = "leads" =>
                  /\ IsArray(Get(pl, "leads"))
                  /\ Get(pl, "count") = Num(10 * Len(Get(pl, "leads").a))
                  /\ TextField(endpoint, res.body) = Undef
            /\ endpoint # "v1" => EchoesRequired(pl)
            /\ endpoint = "v1" => Get(pl, "prompt") = Undef
            /\ Stamped(pl) <=> endpoint \notin {"content", "leads"}

\* a content request was answered 200 with its text and no timestamp
C10_Witness ==
    /\ pc = "done"
    /\ endpoint = "content"
    /\ res.status = 200
    /\ Get(res.body, "content") = Str("Answer: Z")
    /\ ~Stamped(res.body)

\* the body has a property of this name
HasField(b, k) == b.t = "object" /\ k \in DOMAIN b.f

\* a 200 carrying success true
OkShape == res.status = 200 /\ Get(res.body, "success") = Bool(TRUE)

\* a 400 whose only property is the error "<field> is required"
RejectedShape ==
    /\ res.status = 400
    /\ DOMAIN res.body.f = {"error"}
    /\ IsString(Get(res.body, "error"))
    /\ \E i \in 1..Len(Required(endpoint)) :
          Get(res.body, "error").s = Required(endpoint)[i][2]
    /\ \E w \in {"Topic", "Industry", "Product type", "Category", "Name", "Job title",
                 "Recipient name", "Email purpose", "Keyword", "Prompt"} :
          Get(res.body, "error").s = w \o " is required"

\* a 500 carrying an error field
FailedShape == res.status = 500 /\ HasField(res.body, "error")

\* C11 as stated: every request is answered 200 with success true, 400 with
\* "<field> is required", or 500 with both an error and a details field, and
\* success true appears only with 200.
C11_Every500HasDetails ==
    pc = "done" =>
        /\ \/ OkShape
           \/ RejectedShape
           \/ FailedShape /\ HasField(res.body, "details")
        /\ Get(res.body, "success") = Bool(TRUE) => res.status = 200

\* C11 as amended: every request is answered 200 with success true, 400 with
\* "<field> is required", or 500 with an error field; the 500 body also has a
\* details field unless it is the not-configured result, which has a
\* suggestion field and no details; success true appears only with 200.
C11_ThreeAnswers ==
    pc = "done" =>
        /\ \/ OkShape
           \/ RejectedShape
           \/ /\ FailedShape
              /\ IF res.body = NotConfiguredResult
                 THEN HasField(res.body, "suggestion") /\ ~HasField(res.body, "details")
                 ELSE HasField(res.body, "details")
        /\ Get(res.body, "success") = Bool(TRUE) => res.status = 200
        /\ res.status = 200 => ~HasField(res.body, "error")
        /\ res.status # 200 => ~HasField(res.body, "success")

\* a valid request answered 500 with the not-configured result, which has no details
C11_Witness ==
    /\ pc = "done"
    /\ Valid(endpoint, body)
    /\ res.status = 500
    /\ res.body = NotConfiguredResult
    /\ ~HasField(res.body, "details")

\* the two body shapes whose only text is a summary x
SummaryShapes(x) ==
    {Obj([summary |-> Str(x)]), Arr(<<Obj([summary |-> Str(x)])>>)}

\* C12: on every endpoint the extraction tries generated_text, then text,
\* then summary, so a body whose only field is a summary S yields the
\* extracted text S.
C12_SummaryReadEverywhere ==
    \A x \in PlainTexts : \A d \in SummaryShapes(x) :
        (pc = "done" /\ Answered(d)) =>
            /\ res.status = 200
            /\ endpoint # "leads" => TextField(endpoint, res.body) = Str(x)
            /\ endpoint = "leads" => Get(res.body, "leads") = StructureLeads(Str(x), body)

\* the same, on the five endpoints whose extraction has the summary step
C12_SummaryReadWhereTried ==
    \A x \in PlainTexts : \A d \in SummaryShapes(x) :
        (pc = "done" /\ endpoint \in SummaryEndpoints /\ Answered(d)) =>
            /\ res.status = 200
            /\ endpoint # "leads" => TextField(endpoint, res.body) = Str(x)
            /\ endpoint = "leads" => Get(res.body, "leads") = StructureLeads(Str(x), body)

\* on the other five a summary-only body comes back serialized
C12_SerializedElsewhere ==
    /\ pc = "done"
    /\ endpoint = "resume"
    /\ Answered(Obj([summary |-> Str("X y")]))
    /\ res.status = 200
    /\ TextField(endpoint, res.body) = Str("{\"summary\":\"X y\"}")

\* a 200 went out for a text that is empty once the prompt is removed and the
\* rest trimmed
StrippedToNothing ==
    /\ pc = "done"
    /\ endpoint # "leads"
    /\ res.status = 200
    /\ Generated.ok
    /\ IsString(Generated.v)
    /\ Stripped(Generated.v.s, prompt) = ""

\* C13: whenever removing the prompt and trimming leaves an empty string, the
\* text returned is the normalized text as extracted, neither trimmed nor
\* stripped, so a non-empty normalized text never gives an empty generated
\* text in the response.
C13_FallbackUntrimmed ==
    (StrippedToNothing /\ Generated.v.s # "") =>
        /\ TextField(endpoint, res.body) = Generated.v
        /\ TextField(endpoint, res.body) # Str("")

\* what the handlers return in that case: the extracted text trimmed, which is
\* empty for a text of whitespace only (content then substitutes its sentence)
C13_FallbackTrimmed ==
    StrippedToNothing =>
        TextField(endpoint, res.body) =
            (IF endpoint = "content" /\ Trim(Generated.v.s) = ""
             THEN Str("Content generated successfully")
             ELSE Str(Trim(Generated.v.s)))

\* a text of two spaces came back as the empty string
C13_EmptyReturned ==
    /\ StrippedToNothing
    /\ endpoint = "products"
    /\ Generated.v = Str("  ")
    /\ TextField(endpoint, res.body) = Str("")

\* the ends of the well-formed JSON arrays that start at the first "[" of s
ArrayEnds(s) ==
    LET open == IndexOf(s, "[")
    IN  IF open = 0 THEN {}
        ELSE {j \in open + 1..Len(s) :
                 CharAt(s, j) = "]" /\ JsonParse(SubSeq(s, open, j)).ok}

\* the first JSON-array-shaped substring of s, parsed
FirstArray(s) == JsonParse(SubSeq(s, IndexOf(s, "["), SetMin(ArrayEnds(s)))).v

\* the lead generator answered 200 for a text that holds a well-formed array
LeadsFromArray ==
    /\ pc = "done"
    /\ endpoint = "leads"
    /\ res.status = 200
    /\ Generated.ok
    /\ IsString(Generated.v)
    /\ ArrayEnds(Generated.v.s) # {}

\* C14: the first JSON-array-shaped substring of the generated text is what
\* is parsed as the lead list, also when further text with another "]"
\* follows it.
C14_FirstArrayParsed ==
    LeadsFromArray => Get(res.body, "leads") = FirstArray(Generated.v.s)

\* the same when no "]" follows the array
C14_LoneArrayParsed ==
    (LeadsFromArray /\ SetMin(ArrayEnds(Generated.v.s)) = SetMax({j \in 1..Len(Generated.v.s) : CharAt(Generated.v.s, j) = "]"}))
        => Get(res.body, "leads") = FirstArray(Generated.v.s)

\* an array followed by a second bracketed group gave the five sample leads
C14_SampleLeadsInstead ==
    /\ LeadsFromArray
    /\ Generated.v = Str("Leads: [1, 2] and more [3] here")
    /\ FirstArray(Generated.v.s) = Arr(<<Num(10), Num(20)>>)
    /\ Get(res.body, "leads") = SampleLeads(body)

\* the positions in net of the generation POSTs of the request in hand
Posts == {i \in 1..Len(net) : net[i].to = "inference"}

\* the positions in net of its trends fetches
Fetches == {i \in 1..Len(net) : net[i].to = "reddit"}

\* the generation POST of the request in hand has settled
PostSettled == pc = "done" /\ genReply.kind # "none"

\* the POST ended in 503, another non-2xx status, a transport failure or a
\* body that does not parse
PostFailed ==
    /\ PostSettled
    /\ \/ genReply.kind = "reject"
       \/ genReply.kind = "response" /\ ~ResponseOk(genReply)
       \/ genReply.kind = "response" /\ ~genReply.json.ok

\* C15: a request issues at most one generation POST, whatever the outcome of
\* that POST; a request whose POST has settled, well or badly, has issued
\* exactly one.
C15_AtMostOnePost ==
    /\ Cardinality(Posts) <= 1
    /\ PostSettled => Cardinality(Posts) = 1
    /\ pc = "generate" => Cardinality(Posts) = 1

\* C15, step by step: once the POST is out, no step of the request adds an
\* outbound call.
C15_NoSecondAttempt ==
    [][pc = "generate" => (net' = net /\ pc' = "done")]_vars

\* a newsletter request whose POST was answered 503 is over with one POST issued
C15_Witness ==
    /\ PostFailed
    /\ endpoint = "newsletter"
    /\ genReply.kind = "response"
    /\ genReply.status = ModelLoadingStatus
    /\ res.status = 500
    /\ Cardinality(Posts) = 1
    /\ Cardinality(Fetches) = 1

\* the request in hand asks for trend enrichment
WantsTrends == endpoint \in TrendEndpoints /\ Truthy(Get(body, "includeTrends"))

\* a trends fetch is out and has not settled
FetchInFlight == Fetches # {} /\ trendsReply.kind = "none"

\* a generation POST is out and has not settled
PostInFlight == Posts # {} /\ genReply.kind = "none"

\* C16: in a newsletter or SEO request that asks for trends, the fetch has
\* settled, well or badly, before the prompt is built and before the POST is
\* issued; the two calls are never in flight together; a request that does
\* not ask for trends issues no fetch.
C16_TrendsBeforeGeneration ==
    /\ FetchInFlight => (prompt = "" /\ Posts = {} /\ pc = "trends")
    /\ ~(FetchInFlight /\ PostInFlight)
    /\ (InHand /\ WantsTrends /\ Posts # {}) =>
          /\ trendsReply.kind # "none"
          /\ Cardinality(Fetches) = 1
          /\ \A i \in Fetches : \A j \in Posts : i < j
    /\ (InHand /\ WantsTrends /\ prompt # "") => trendsReply.kind # "none"
    /\ (InHand /\ ~WantsTrends) => (Fetches = {} /\ trendsReply.kind = "none")

\* C16, step by step: the step that issues the POST of a request asking for
\* trends is the one in which its fetch settles.
C16_PostFollowsFetch ==
    [][(Posts = {} /\ Posts' # {} /\ WantsTrends') =>
          (FetchInFlight /\ trendsReply'.kind # "none" /\ Fetches' = Fetches)]_vars

\* an SEO request whose fetch failed has its POST in flight, after the fetch
C16_Witness ==
    /\ pc = "generate"
    /\ endpoint = "seo"
    /\ WantsTrends
    /\ FetchFailed
    /\ PostInFlight
    /\ ~FetchInFlight
    /\ net[1].to = "reddit"
    /\ net[2].to = "inference"
    /\ net[2].inputs = prompt

\* the optional fields that have a clause of their own in the prompt, each
\* with a piece of text only that clause contains
OptionalClauses(ep) ==
    CASE ep = "leads"   -> {<<"location", " located in ">>, <<"companySize", " employees">>}
      [] ep = "prompts" -> {<<"useCase", " specifically for ">>, <<"style", " style">>}
      [] ep = "trends"  -> {<<"timeframe", " for the ">>, <<"focus", " focusing on ">>}
      [] ep = "resume"  -> {<<"experience", "Experience: ">>, <<"skills", "Skills: ">>,
                            <<"education", "Education: ">>}
      [] ep = "email"   -> {<<"recipientCompany", " at ">>,
                            <<"valueProposition", "Value proposition: ">>,
                            <<"callToAction", "Call to action: ">>}
      [] ep = "newsletter" -> {<<"includeTrends", "Include trending topics: ">>}
      [] ep = "seo"     -> {<<"includeTrends", "Reference these trending topics: ">>}
      [] OTHER          -> {}

\* a clause with nothing in it
EmptyClauses ==
    {"topics: . ", "Experience: . ", "Skills: . ", "Education: . ",
     "Value proposition: . ", "Call to action: . ", " located in.", " located in with",
     " with  employees", " specifically for.", " specifically for in a", " in a  style",
     " for the.", " for the focusing", " focusing on.", " at. Purpose"}

\* the prompt of the request in hand has been built
PromptBuilt == InHand /\ prompt # "" /\ endpoint # "v1"

\* an omitted optional field has left no clause in the prompt
OmittedLeaveNoClause ==
    \A c \in OptionalClauses(endpoint) :
        Get(body, c[1]) = Undef => ~Contains(prompt, c[2])

\* C17: whatever optional fields are present or omitted, an omitted one
\* leaves no clause in the prompt, and the prompt never contains the text
\* "undefined" or an empty clause.
C17_NoUndefinedNoEmptyClause ==
    PromptBuilt =>
        /\ OmittedLeaveNoClause
        /\ ~Contains(prompt, "undefined")
        /\ \A c \in EmptyClauses : ~Contains(prompt, c)

\* the part that holds: omitted fields leave no clause, and no prompt says
\* "undefined"
C17_OmittedFieldsLeaveNoClause ==
    PromptBuilt => (OmittedLeaveNoClause /\ ~Contains(prompt, "undefined"))

\* a newsletter prompt with a trends clause that lists nothing
C17_EmptyTrendsClause ==
    /\ PromptBuilt
    /\ endpoint = "newsletter"
    /\ trendsData = Arr(<<>>)
    /\ Contains(prompt, "Include trending topics: . Include: engaging")

\* the generation POST of the request in hand, once issued
ThePost == net[CHOOSE i \in Posts : TRUE]

\* the parameters another request to the same endpoint would send
ParametersOf(ep, b) == GenerationCall(ep, b, "").parameters

\* the valid requests an endpoint may receive
ValidBodies(ep) == {b \in RequestBodies(ep) : Valid(ep, b)}

\* C18 as stated: on every endpoint the max tokens and temperature sent are
\* constants of the tool: any other request to the same endpoint sends the
\* same parameters, whatever its body.
C18_ParametersFixedEverywhere ==
    (pc = "generate" /\ Posts # {}) =>
        \A b \in ValidBodies(endpoint) :
            ParametersOf(endpoint, b) = ThePost.parameters

\* C18 as amended: on the nine tool endpoints the parameters are constants of
\* the tool; v1/generate sends the request's maxTokens and temperature, and
\* 200 and 0.7 in place of one that is absent or falsy.
C18_ParametersFixedPerTool ==
    (pc = "generate" /\ Posts # {}) =>
        IF endpoint # "v1"
        THEN \A b \in ValidBodies(endpoint) :
                 ParametersOf(endpoint, b) = ThePost.parameters
        ELSE /\ ThePost.parameters.max_new_tokens =
                   (IF Truthy(Get(body, "maxTokens")) THEN Get(body, "maxTokens")
                    ELSE Num(2000))
             /\ ThePost.parameters.temperature =
                   (IF Truthy(Get(body, "temperature")) THEN Get(body, "temperature")
                    ELSE Num(7))

\* a v1 request asking for 500 tokens and no temperature sent 500 and 0.7
C18_Witness ==
    /\ pc = "generate"
    /\ Posts # {}
    /\ endpoint = "v1"
    /\ Get(body, "maxTokens") = Num(5000)
    /\ Get(body, "temperature") = Undef
    /\ ThePost.parameters = [max_new_tokens |-> Num(5000), temperature |-> Num(7)]

\* numbers are in tenths: an integer greater than 0
PositiveInteger(v) == v.t = "number" /\ v.n > 0 /\ v.n % 10 = 0

\* a number within [0, 2]
UnitTemperature(v) == v.t = "number" /\ v.n >= 0 /\ v.n <= 20

\* the parameters of the POST issued are in range
ParametersInRange ==
    /\ PositiveInteger(ThePost.parameters.max_new_tokens)
    /\ UnitTemperature(ThePost.parameters.temperature)

\* C19: every generation request sent to the backend, from any endpoint and
\* for any request body, has a max-new-tokens that is an integer greater
\* than 0 and a temperature within [0, 2].
C19_ParametersInRange ==
    Posts # {} => ParametersInRange

\* the same, on the nine endpoints whose parameters are fixed
C19_FixedParametersInRange ==
    (Posts # {} /\ endpoint # "v1") => ParametersInRange

\* a v1 request sent -5 tokens and temperature 5 to the backend
C19_OutOfRangeSent ==
    /\ Posts # {}
    /\ endpoint = "v1"
    /\ ThePost.parameters = [max_new_tokens |-> Num(-50), temperature |-> Num(50)]

----------------------------------------------------------------------------
(* Several requests in flight at once.  Node runs each handler to its next *)
(* await before another handler runs, so the steps below are the same      *)
(* steps as above, taken by any of the requests in flight.  In this second *)
(* specification pc, endpoint, body, net, trendsReply, genReply and res    *)
(* are functions of the request slot (req and res are per request), and    *)
(* prompt and trendsData are functions of the cell that holds the          *)
(* handler's local of that name.                                           *)

\* the requests the process may be handling at once
MaxInFlight == 2

Slots == 1..MaxInFlight

\* a variable changed to those held by the global scope
CellShared(s) == 1

\* where the invocation handling slot s keeps its let and const variables:
\* each call of a handler has a scope of its own
Cell(s) == s

PairEndpoints == {"content", "newsletter"}

PairBodies(ep) ==
    IF ep = "content"
    THEN {Obj([topic |-> a, type |-> Undef, tone |-> Undef]) : a \in {Undef, Str("AI")}}
    ELSE {Obj([topic |-> Str("AI"), audience |-> x, sections |-> Undef, includeTrends |-> i]) :
             x \in OptionalValues, i \in Flags}

PairTrendsReplies ==
    {Reject("getaddrinfo ENOTFOUND"),
     Response(200, "OK", Gives(""), Gives(Listing(<<Child(Str("AI boom"), Str("tech"))>>)))}

\* what the backend may answer to a POST whose inputs are p
PairGenerationReplies(p) ==
    {Response(ModelLoadingStatus, "Service Unavailable", Gives("loading"),
              Throws("Unexpected token")),
     Response(200, "OK", Gives(""),
              Gives(Arr(<<Obj([generated_text |-> Str(p \o "\n\nAnswer: Z")])>>))),
     Response(200, "OK", Gives(""), Gives(Obj([text |-> Str("X y")])))}

\* the inputs of the POST slot s has in flight
SentPrompt(s) == IF pc[s] = "generate" THEN net[s][Len(net[s])].inputs ELSE ""

\* from the prompt template to the await inside callHuggingFaceAPI, for slot s
PairGenerate(s, ep, b, td, calls) ==
    LET p == BuildPrompt(ep, b, td)
    IN  /\ prompt' = [prompt EXCEPT ![Cell(s)] = p]
        /\ trendsData' = [trendsData EXCEPT ![Cell(s)] = td]
        /\ IF KeyMissing(apiKey)
           THEN /\ res' = [res EXCEPT ![s] = UpstreamFailure(NotConfiguredResult)]
                /\ net' = [net EXCEPT ![s] = calls]
                /\ pc' = [pc EXCEPT ![s] = "done"]
           ELSE /\ res' = res
                /\ net' = [net EXCEPT ![s] = Append(calls, GenerationCall(ep, b, p))]
                /\ pc' = [pc EXCEPT ![s] = "generate"]

\* a POST arrives while others may be in flight
PairReceive(s, ep, b) ==
    /\ pc[s] = "idle"
    /\ endpoint' = [endpoint EXCEPT ![s] = ep]
    /\ body' = [body EXCEPT ![s] = b]
    /\ UNCHANGED <<apiKey, trendsReply, genReply>>
    /\ IF ~Valid(ep, b)
       THEN /\ res' = [res EXCEPT ![s] = Rejection(ep, b)]
            /\ pc' = [pc EXCEPT ![s] = "done"]
            /\ UNCHANGED <<trendsData, prompt, net>>
       ELSE IF ep \in TrendEndpoints /\ Truthy(Get(b, "includeTrends"))
       THEN /\ net' = [net EXCEPT ![s] = <<TrendsCall(ep, b)>>]
            /\ pc' = [pc EXCEPT ![s] = "trends"]
            /\ trendsData' = [trendsData EXCEPT ![Cell(s)] = Null]
            /\ prompt' = [prompt EXCEPT ![Cell(s)] = ""]
            /\ res' = res
       ELSE PairGenerate(s, ep, b, Null, <<>>)

\* the trends fetch of slot s settles
PairTrendsSettled(s, reply) ==
    /\ pc[s] = "trends"
    /\ UNCHANGED <<apiKey, endpoint, body, genReply>>
    /\ trendsReply' = [trendsReply EXCEPT ![s] = reply]
    /\ LET td == TrendsFrom(endpoint[s], body[s], RedditResult(reply))
       IN  IF ~td.ok
           THEN /\ res' = [res EXCEPT ![s] = InternalError(td.message)]
                /\ pc' = [pc EXCEPT ![s] = "done"]
                /\ UNCHANGED <<trendsData, prompt, net>>
           ELSE PairGenerate(s, endpoint[s], body[s], td.v, net[s])

\* the generation POST of slot s settles, the clock reading now
PairGenerationSettled(s, reply, now) ==
    /\ pc[s] = "generate"
    /\ res' = [res EXCEPT ![s] = Finish(endpoint[s], body[s], prompt[Cell(s)],
                                        trendsData[Cell(s)], HFResult(reply), now)]
    /\ pc' = [pc EXCEPT ![s] = "done"]
    /\ genReply' = [genReply EXCEPT ![s] = reply]
    /\ UNCHANGED <<apiKey, endpoint, body, trendsData, prompt, net, trendsReply>>

\* the request of slot s is over; the slot takes the next one
PairNextRequest(s) ==
    /\ pc[s] = "done"
    /\ pc' = [pc EXCEPT ![s] = "idle"]
    /\ endpoint' = [endpoint EXCEPT ![s] = "none"]
    /\ body' = [body EXCEPT ![s] = Undef]
    /\ net' = [net EXCEPT ![s] = <<>>]
    /\ trendsReply' = [trendsReply EXCEPT ![s] = NoReply]
    /\ genReply' = [genReply EXCEPT ![s] = NoReply]
    /\ res' = [res EXCEPT ![s] = NoResponse]
    /\ trendsData' = [trendsData EXCEPT ![Cell(s)] = Null]
    /\ prompt' = [prompt EXCEPT ![Cell(s)] = ""]
    /\ apiKey' = apiKey

PairInit ==
    /\ apiKey \in {"", "hf_token"}
    /\ pc = [s \in Slots |-> "idle"]
    /\ endpoint = [s \in Slots |-> "none"]
    /\ body = [s \in Slots |-> Undef]
    /\ trendsData = [s \in Slots |-> Null]
    /\ prompt = [s \in Slots |-> ""]
    /\ net = [s \in Slots |-> <<>>]
    /\ trendsReply = [s \in Slots |-> NoReply]
    /\ genReply = [s \in Slots |-> NoReply]
    /\ res = [s \in Slots |-> NoResponse]

PairNext ==
    \E s \in Slots :
        \/ \E ep \in PairEndpoints : \E b \in PairBodies(ep) : PairReceive(s, ep, b)
        \/ \E reply \in PairTrendsReplies : PairTrendsSettled(s, reply)
        \/ \E reply \in PairGenerationReplies(SentPrompt(s)) :
              \E now \in 1..MaxClock : PairGenerationSettled(s, reply, now)
        \/ PairNextRequest(s)

SpecPair == PairInit /\ [][PairNext]_vars

\* the response of a request handled on its own, given what its remote calls
\* were answered and the clock reading at its response
Alone(ep, b, key, treply, greply, now) ==
    IF ~Valid(ep, b) THEN Rejection(ep, b)
    ELSE LET td == IF ep \in TrendEndpoints /\ Truthy(Get(b, "includeTrends"))
                   THEN TrendsFrom(ep, b, RedditResult(treply))
                   ELSE Gives(Null)
         IN  IF ~td.ok THEN InternalError(td.message)
             ELSE IF KeyMissing(key) THEN UpstreamFailure(NotConfiguredResult)
             ELSE Finish(ep, b, BuildPrompt(ep, b, td.v), td.v, HFResult(greply), now)

\* Alone is the handler of the one-request specification
AloneIsTheHandler ==
    pc = "done" =>
        \E now \in 1..MaxClock :
            res = Alone(endpoint, body, apiKey, trendsReply, genReply, now)

\* C20: however the steps of the requests in flight interleave, the response
\* of each request is the one it would get if handled alone with the same
\* upstream replies.
C20_ResponseAsIfAlone ==
    \A s \in Slots :
        pc[s] = "done" =>
            \E now \in 1..MaxClock :
                res[s] = Alone(endpoint[s], body[s], apiKey, trendsReply[s], genReply[s], now)

\* C20, step by step: a step of one request changes nothing that belongs to
\* a request that does not take the step.
C20_NoInterference ==
    [][\A s \in Slots :
          pc'[s] = pc[s] =>
              /\ endpoint'[s] = endpoint[s]
              /\ body'[s] = body[s]
              /\ net'[s] = net[s]
              /\ res'[s] = res[s]
              /\ trendsReply'[s] = trendsReply[s]
              /\ genReply'[s] = genReply[s]
              /\ prompt'[Cell(s)] = prompt[Cell(s)]
              /\ trendsData'[Cell(s)] = trendsData[Cell(s)]]_vars

\* a newsletter request got its echo-stripped text while a content request,
\* which has built another prompt, has its POST in flight
C20_Witness ==
    /\ pc[1] = "done"
    /\ endpoint[1] = "newsletter"
    /\ res[1].status = 200
    /\ Get(Get(res[1].body, "newsletter"), "content") = Str("Answer: Z")
    /\ Get(Get(res[1].body, "newsletter"), "trends") # Null
    /\ pc[2] = "generate"
    /\ endpoint[2] = "content"
    /\ prompt[Cell(2)] # prompt[Cell(1)]

\* a 200 went out for a text that has something besides whitespace and does
\* not begin with the prompt
NoEchoPrefix ==
    /\ pc = "done"
    /\ endpoint # "leads"
    /\ res.status = 200
    /\ Generated.ok
    /\ IsString(Generated.v)
    /\ Trim(Generated.v.s) # ""
    /\ ~StartsWith(Generated.v.s, prompt)

\* C21: the prompt is removed only where the text begins with it: a text
\* that does not start with the prompt, also one that holds the prompt in
\* the middle or at the end, is returned unchanged but for the trimming.
C21_OnlyPrefixStripped ==
    NoEchoPrefix => TextField(endpoint, res.body) = Str(Trim(Generated.v.s))

\* the same for the texts that do not contain the prompt at all
C21_UntouchedWithoutPrompt ==
    (NoEchoPrefix /\ ~Contains(Generated.v.s, prompt)) =>
        TextField(endpoint, res.body) = Str(Trim(Generated.v.s))

\* a prompt in the middle of the text was cut out of it
C21_MiddleRemoved ==
    /\ NoEchoPrefix
    /\ endpoint = "content"
    /\ Generated.v = Str("Sure. " \o prompt \o " Done.")
    /\ TextField(endpoint, res.body) = Str("Sure.  Done.")

\* the backend answered the POST with a body from which no string is
\* extracted: the extraction throws, or gives a number, an object or undefined
ExtractedNoString ==
    /\ PostSettled
    /\ ~Truthy(Get(HFResult(genReply), "error"))
    /\ (Generated.ok => ~IsString(Generated.v))

\* C22: whenever an endpoint answers 200 the generated-text field of the
\* response is a string, and a body whose extracted value is no string is
\* never answered 200 but 500.
C22_NoStringNoOk ==
    /\ (pc = "done" /\ res.status = 200 /\ endpoint # "leads") =>
          IsString(TextField(endpoint, res.body))
    /\ ExtractedNoString => res.status = 500

\* the same, on the nine endpoints that return a generated text
C22_NoStringNoOkOutsideLeads ==
    /\ (pc = "done" /\ res.status = 200 /\ endpoint # "leads") =>
          IsString(TextField(endpoint, res.body))
    /\ (ExtractedNoString /\ endpoint # "leads") => res.status = 500

\* the lead generator answered 200 with its sample leads for a text that is a number
C22_LeadsOkForNumber ==
    /\ ExtractedNoString
    /\ endpoint = "leads"
    /\ Answered(Obj([generated_text |-> Num(50)]))
    /\ Generated.v = Num(50)
    /\ res.status = 200
    /\ Get(res.body, "leads") = SampleLeads(body)

\* a valid request is in hand and no credential is configured
ValidWithoutCredential == apiKey = "" /\ InHand /\ Valid(endpoint, body)

\* the request in hand was answered 500 with the not-configured result
NotConfiguredAnswer ==
    pc = "done" /\ res.status = 500 /\ res.body = NotConfiguredResult

\* C23: with no credential configured every valid request, also a newsletter
\* or SEO request with includeTrends set, is answered 500 with the
\* not-configured error, and no outbound request of any kind is issued for it.
C23_NoCredentialNoTraffic ==
    ValidWithoutCredential =>
        /\ net = <<>>
        /\ pc = "done" => NotConfiguredAnswer

\* the same for the requests that do not ask for trends
C23_NoCredentialNoTrafficWithoutTrends ==
    (ValidWithoutCredential /\ ~WantsTrends) =>
        /\ net = <<>>
        /\ NotConfiguredAnswer

\* a newsletter request without credential was answered not-configured after
\* its trends fetch had gone out and been answered
C23_FetchedAnyway ==
    /\ ValidWithoutCredential
    /\ endpoint = "newsletter"
    /\ NotConfiguredAnswer
    /\ Len(net) = 1
    /\ net[1].to = "reddit"
    /\ trendsReply.kind = "response"

\* the trends fetch of the request in hand succeeded and left no post to use
NoUsableTrends ==
    /\ InHand
    /\ WantsTrends
    /\ prompt # ""
    /\ trendsReply.kind = "response"
    /\ Truthy(Get(RedditResult(trendsReply), "success"))
    /\ trendsData = Arr(<<>>)

\* C24: when the trends fetch succeeds but supplies no usable item (an empty
\* post list, or no post matching the keyword), the prompt has no trends
\* clause: it is the prompt of the same request without includeTrends.
C24_NoItemsNoClause ==
    NoUsableTrends =>
        /\ prompt = BuildPrompt(endpoint, body, Null)
        /\ ~Contains(prompt, "trending topics")

\* what the handlers build instead: the clause with an empty list
C24_NoItemsEmptyClause ==
    NoUsableTrends =>
        /\ Contains(prompt, "trending topics: . ")
        /\ RemoveFirst(RemoveFirst(prompt, "Include trending topics: . "),
                       "Reference these trending topics: . ")
               = BuildPrompt(endpoint, body, Null)

\* an SEO request whose keyword matched none of the posts fetched sent a
\* prompt with an empty trends clause
C24_FilteredToNothing ==
    /\ NoUsableTrends
    /\ endpoint = "seo"
    /\ pc = "generate"
    /\ Get(Get(RedditResult(trendsReply), "data"), "posts") # Arr(<<>>)
    /\ Contains(net[2].inputs, "Reference these trending topics: . Include: SEO-optimized")

\* v1/generate answered 200
V1Answered == pc = "done" /\ endpoint = "v1" /\ res.status = 200 /\ Posts # {}

\* C25: the model named in a 200 response of v1/generate is the model the
\* generation request was sent to, whatever the request's model field.
C25_ModelNamedIsModelUsed ==
    V1Answered => Get(Get(res.body, "data"), "model") = Str(ThePost.model)

\* the same for the requests that name no model
C25_DefaultModelNamed ==
    (V1Answered /\ ~Truthy(Get(body, "model"))) =>
        Get(Get(res.body, "data"), "model") = Str(ThePost.model)

\* a request naming gpt2 was sent to the fixed model and answered as gpt2
C25_OtherModelNamed ==
    /\ V1Answered
    /\ Get(body, "model") = Str("gpt2")
    /\ ThePost.model = ModelId
    /\ Get(Get(res.body, "data"), "model") = Str("gpt2")

----------------------------------------------------------------------------
(* Progress: every remote call a request issues is eventually answered or  *)
(* fails, which is all the handlers wait for.                              *)

\* the requests of the progress check: every required field absent or "AI",
\* every optional field absent or "Zed", trends asked for or not
LiveBodies(ep) ==
    {b \in RequestBodies(ep) :
        \A k \in DOMAIN b.f : b.f[k] \in {Undef, Str("AI"), Str("Zed"), Bool(TRUE)}}

\* the feed failing, answering posts the SEO filter throws on, answering posts
LiveTrendsReplies ==
    {Reject("getaddrinfo ENOTFOUND"),
     Response(200, "OK", Gives(""), Gives(Listing(<<Child(Undef, Str("aww"))>>))),
     Response(200, "OK", Gives(""),
              Gives(Listing(<<Child(Str("AI boom"), Str("tech")),
                              Child(Str("Cats"), Str("aww"))>>)))}

\* the backend failing, answering 503, and answering 200 with a text, with
\* null and with a number for text
LiveGenerationReplies(p) ==
    {Reject("socket hang up"),
     Response(ModelLoadingStatus, "Service Unavailable", Gives("Unauthorized"),
              Throws("Unexpected token")),
     Response(200, "OK", Gives(""), Throws("Unexpected token < in JSON")),
     Response(200, "OK", Gives(""),
              Gives(Arr(<<Obj([generated_text |-> Str(p \o "\n\nAnswer: Z")])>>))),
     Response(200, "OK", Gives(""), Gives(Null)),
     Response(200, "OK", Gives(""), Gives(Obj([generated_text |-> Num(50)])))}

TrendsSettle == \E reply \in LiveTrendsReplies : TrendsSettled(reply)

GenerationSettle ==
    \E reply \in LiveGenerationReplies(prompt) : \E now \in 1..MaxClock :
        GenerationSettled(reply, now)

LiveNext ==
    \/ \E ep \in Endpoints : \E b \in LiveBodies(ep) : Receive(ep, b)
    \/ TrendsSettle
    \/ GenerationSettle
    \/ NextRequest

SpecLive ==
    Init /\ [][LiveNext]_vars /\ WF_vars(TrendsSettle) /\ WF_vars(GenerationSettle)

\* a response has been written for the request in hand
Responded == res.status # 0

\* the handler of the request in hand has returned
Returned == pc = "done"

\* C26: provided every remote call eventually returns or fails, every request
\* eventually receives a response, and exactly one: a handler that has
\* returned has responded, a handler still waiting has not, and a response
\* once written is not written again.
C26_ExactlyOneResponse ==
    /\ InHand ~> (Returned /\ Responded)
    /\ [](Returned <=> Responded)
    /\ [][Responded => (res' = res \/ (pc' = "idle" /\ res' = NoResponse))]_vars
    /\ [][(~Responded /\ Responded') => (pc # "done" /\ pc' = "done")]_vars

\* an SEO request that waited for both its remote calls has its one response
C26_Witness ==
    /\ Returned
    /\ Responded
    /\ endpoint = "seo"
    /\ WantsTrends
    /\ trendsReply.kind = "response"
    /\ genReply.kind = "response"
    /\ Len(net) = 2
    /\ res.status = 200

=============================================================================
